---- MODULE Spec2Model ----
(***************************************************************************)
(* Bright Data connectors for the Fivetran connector SDK.                  *)
(*                                                                         *)
(* The dataset connector's Snapshot Client:                                *)
(*   _create_filtered_snapshot   POST /datasets/filter with retry/backoff  *)
(*   _poll_and_get_snapshot_content   poll client.download_snapshot        *)
(* Each function is a state machine over its local variables; the vendor's *)
(* answers (HTTP responses, SDK return values, exceptions) are inputs.     *)
(*                                                                         *)
(* The Sync Orchestrator of the four connectors (dataset, scrape, serp,    *)
(* unlocker): update and its _sync_* function, with the calls it makes to  *)
(* the vendor API and to the host's op.upsert and op.checkpoint.           *)
(*                                                                         *)
(* The pure helpers (the Input Normalizer _parse_*, process_search_result) *)
(* are operators; a call of one of them is a two-state machine.            *)
(***************************************************************************)
EXTENDS Integers, Sequences, FiniteSets, TLC

VARIABLES
    \* _poll_and_get_snapshot_content
    p_pc,          \* "polling" (in the while loop) | "done" (returned or raised)
    snapshot_id,   \* argument
    max_attempts,  \* argument
    p_attempt,     \* local `attempt`
    p_calls,       \* number of client.download_snapshot calls made
    p_sleeps,      \* number of time.sleep(poll_interval) calls made
    p_last,        \* outcome of the last download_snapshot call
    p_exc,         \* exception caught by the last attempt's handler, or NoExc
    p_caught,      \* the handler has run in some attempt of this call
    p_result,      \* what the call did at its end: [kind |-> "return"|"raise", ...]
    \* _create_filtered_snapshot
    c_pc,          \* "posting" (in the while loop) | "done"
    retries,       \* argument
    backoff_factor,\* argument, a rational <<numerator, denominator>>
    c_attempt,     \* local `attempt`
    backoff,       \* local `backoff`, a rational <<numerator, denominator>>
    c_posts,       \* number of requests.post calls made
    c_waits,       \* the durations passed to time.sleep, in order
    c_last,        \* outcome of the last requests.post call
    c_kinds,       \* the set of outcome classes seen so far in this call
    c_result,      \* what the call did at its end
    \* update (the Sync Orchestrator)
    connector,     \* which connector's update runs
    configuration, \* argument: the configuration mapping
    state,         \* argument: the state mapping of the caller (or None), as it is now
    state_passed,  \* the state mapping as it was when update was called
    env,           \* what the vendor API answers and which call fails, if any
    invocation,    \* 1, or 2 for a later invocation with the same configuration
    first_ops,     \* the calls the first invocation made
    u_pc,          \* position in update
    new_state,     \* local `new_state`
    new_state_is_state, \* `new_state is state`: both name the caller's mapping
    urls,          \* local `urls` / `queries`: the normalized input list
    api_results,   \* what the fetch returned: `records` / `*_results`
    processed_results, \* local `processed_results`
    ops,           \* the calls made so far: fetch, upsert, checkpoint
    u_result,      \* how update ended: returned state or raised exception
    \* one call of a pure helper
    call_pc,       \* "call" | "done"
    call_fn,       \* the function called
    call_args,     \* its arguments
    call_origin,   \* the list and encoding an argument was written from, if any
    call_ret       \* its return value

pollVars == <<p_pc, snapshot_id, max_attempts, p_attempt, p_calls, p_sleeps,
              p_last, p_exc, p_caught, p_result>>
createVars == <<c_pc, retries, backoff_factor, c_attempt, backoff, c_posts,
                c_waits, c_last, c_kinds, c_result>>
updateVars == <<connector, configuration, state, state_passed, env, invocation,
                first_ops, u_pc, new_state, new_state_is_state, urls, api_results,
                processed_results, ops, u_result>>
callVars == <<call_pc, call_fn, call_args, call_origin, call_ret>>
vars == <<pollVars, createVars, updateVars, callVars>>

----------------------------------------------------------------------------
(* Python values: a type tag and a payload.                                *)

PyNone == [ty |-> "none"]
PyStr(s) == [ty |-> "str", s |-> s]
PyInt(n) == [ty |-> "int", n |-> n]
PyList(items) == [ty |-> "list", items |-> items]
PyDict(d) == [ty |-> "dict", d |-> d]

\* Marks a key a sampled dict does not carry; never a value of it.
Absent == [ty |-> "absent"]

\* bool(v)
Truthy(v) ==
    CASE v.ty = "none" -> FALSE
      [] v.ty = "str"  -> v.s # ""
      [] v.ty = "int"  -> v.n # 0
      [] v.ty = "list" -> Len(v.items) > 0
      [] v.ty = "dict" -> DOMAIN v.d # {}

\* The decimal digits of a natural number.
RECURSIVE Decimal(_)
Decimal(n) ==
    LET digit == <<"0", "1", "2", "3", "4", "5", "6", "7", "8", "9">>
    IN  IF n < 10 THEN digit[n + 1] ELSE Decimal(n \div 10) \o digit[(n % 10) + 1]

\* str(v), for the scalar values the sampled responses carry
StrOf(v) ==
    CASE v.ty = "none" -> "None"
      [] v.ty = "str"  -> v.s
      [] v.ty = "int"  -> Decimal(v.n)

\* d.get(key): None when the key is missing
DictGet(d, key) == IF key \in DOMAIN d THEN d[key] ELSE PyNone

\* d.get(key, default)
DictGetDefault(d, key, default) == IF key \in DOMAIN d THEN d[key] ELSE default

\* a or b: a when a is truthy, else b
PyOr(a, b) == IF Truthy(a) THEN a ELSE b

\* The restriction of a mapping to some of its keys.
Restrict(d, keys) == [k \in (DOMAIN d) \cap keys |-> d[k]]

----------------------------------------------------------------------------
(* Exception messages are sequences of characters, so that str.lower() and *)
(* the substring test `x in s` are computed and not assumed.               *)

\* str.lower() on one character
LowerChar(c) ==
    CASE c = "A" -> "a" [] c = "B" -> "b" [] c = "C" -> "c" [] c = "D" -> "d"
      [] c = "E" -> "e" [] c = "F" -> "f" [] c = "G" -> "g" [] c = "H" -> "h"
      [] c = "I" -> "i" [] c = "J" -> "j" [] c = "K" -> "k" [] c = "L" -> "l"
      [] c = "M" -> "m" [] c = "N" -> "n" [] c = "O" -> "o" [] c = "P" -> "p"
      [] c = "Q" -> "q" [] c = "R" -> "r" [] c = "S" -> "s" [] c = "T" -> "t"
      [] c = "U" -> "u" [] c = "V" -> "v" [] c = "W" -> "w" [] c = "X" -> "x"
      [] c = "Y" -> "y" [] c = "Z" -> "z"
      [] OTHER -> c

\* str.lower()
Lower(s) == [i \in 1..Len(s) |-> LowerChar(s[i])]

\* needle in hay
Contains(needle, hay) ==
    \E i \in 0..(Len(hay) - Len(needle)) :
        \A j \in 1..Len(needle) : hay[i + j] = needle[j]

\* The characters joined into one string.
RECURSIVE Join(_)
Join(s) == IF s = <<>> THEN "" ELSE Head(s) \o Join(Tail(s))

----------------------------------------------------------------------------
(* The machines that are not running.                                      *)

\* update is not running.
UpdateIdle ==
    /\ connector = ""
    /\ configuration = <<>>
    /\ state = PyNone
    /\ state_passed = PyNone
    /\ new_state_is_state = FALSE
    /\ env = [response |-> PyNone, fault |-> [at |-> "none"]]
    /\ invocation = 0
    /\ first_ops = <<>>
    /\ u_pc = "idle"
    /\ new_state = <<>>
    /\ urls = <<>>
    /\ api_results = PyNone
    /\ processed_results = <<>>
    /\ ops = <<>>
    /\ u_result = [kind |-> "none"]

\* No pure helper is being called.
CallIdle ==
    /\ call_pc = "idle"
    /\ call_fn = ""
    /\ call_args = <<>>
    /\ call_origin = [encoding |-> "none"]
    /\ call_ret = PyNone

----------------------------------------------------------------------------
(* Bounds of the model.                                                    *)

\* Largest max_attempts explored besides the default of filter_dataset.
MaxAttemptsBound == 3

\* Largest `retries` explored; filter_dataset's default is 3.
MaxRetries == 3

\* requests.post calls followed within one call of _create_filtered_snapshot.
MaxPosts == 5

----------------------------------------------------------------------------
(* helpers/common.py                                                       *)

MAX_SNAPSHOT_WAIT_SECONDS == 300
SNAPSHOT_POLL_INTERVAL_SECONDS == 5
RETRY_STATUS_CODES == {408, 429, 500, 502, 503, 504}

\* filter_dataset: max_attempts=MAX_SNAPSHOT_WAIT_SECONDS // SNAPSHOT_POLL_INTERVAL_SECONDS
DefaultMaxAttempts == MAX_SNAPSHOT_WAIT_SECONDS \div SNAPSHOT_POLL_INTERVAL_SECONDS

\* filter_dataset: poll_interval=SNAPSHOT_POLL_INTERVAL_SECONDS
poll_interval == SNAPSHOT_POLL_INTERVAL_SECONDS

----------------------------------------------------------------------------
(* Inputs of _poll_and_get_snapshot_content: what client.download_snapshot *)
(* may answer.                                                             *)

SnapshotIds == {"s_8f3a1c2e", "s_01"}

Msg404 == <<"H", "T", "T", "P", " ", "4", "0", "4">>
MsgNotFound == <<"N", "o", "t", " ", "F", "o", "u", "n", "d">>
MsgNotFoundLower == <<"s", "n", "a", "p", "s", "h", "o", "t", " ", "n", "o", "t", " ", "f", "o", "u", "n", "d">>
MsgDoesNotExist == <<"D", "o", "e", "s", " ", "N", "o", "t", " ", "E", "x", "i", "s", "t">>
MsgTimedOut == <<"t", "i", "m", "e", "d", " ", "o", "u", "t">>
MsgHttp500 == <<"H", "T", "T", "P", " ", "5", "0", "0">>
MsgNoneLower == <<"'", "N", "o", "n", "e", "T", "y", "p", "e", "'", " ", "o", "b", "j", "e", "c", "t", " ", "h", "a", "s", " ", "n", "o", " ", "a", "t", "t", "r", "i", "b", "u", "t", "e", " ", "'", "l", "o", "w", "e", "r", "'">>
MsgIntLower == <<"'", "i", "n", "t", "'", " ", "o", "b", "j", "e", "c", "t", " ", "h", "a", "s", " ", "n", "o", " ", "a", "t", "t", "r", "i", "b", "u", "t", "e", " ", "'", "l", "o", "w", "e", "r", "'">>

Exc(type, msg) == [type |-> type, base |-> "Exception", msg |-> msg]

\* No exception was caught.
NoExc == [type |-> "", base |-> "", msg |-> <<>>]

\* Exceptions client.download_snapshot may raise.
DownloadExceptions ==
    { Exc("HTTPError", Msg404), Exc("HTTPError", MsgNotFound),
      Exc("ValueError", MsgNotFoundLower), Exc("RuntimeError", MsgDoesNotExist),
      Exc("Timeout", MsgTimedOut), Exc("HTTPError", MsgHttp500),
      Exc("ConnectionError", <<>>) }

Row1 == PyDict([name |-> PyStr("acme"), status |-> PyStr("active")])
Row2 == PyDict([name |-> PyStr("globex")])

\* The keys the failed branch reads, in the order it reads them.
ErrorKeys == <<"error", "warning", "message", "detail", "details">>
FailedKeys == {"error", "warning", "message", "detail", "details", "warning_code"}

\* A present but empty (falsy) value of each key, and a non-empty one.
FalsyValue ==
    [error |-> PyStr(""), warning |-> PyNone, message |-> PyStr(""),
     detail |-> PyInt(0), details |-> PyNone, warning_code |-> PyStr("")]
TruthyValue ==
    [error |-> PyStr("quota exceeded"), warning |-> PyStr("dataset is empty"),
     message |-> PyStr("internal"), detail |-> PyInt(17),
     details |-> PyStr("see log"), warning_code |-> PyStr("W42")]

\* A dict with the given status and, per key of FailedKeys, no entry, an empty
\* value or a non-empty value.
FailedDict(status, shape) ==
    LET present == {k \in FailedKeys : shape[k] # "absent"}
    IN  [k \in present \cup {"status"} |->
            IF k = "status" THEN status
            ELSE IF shape[k] = "empty" THEN FalsyValue[k] ELSE TruthyValue[k]]

\* Per key: "absent", "empty" (present and falsy) or "set" (present and truthy).
FailedShapes ==
    { shape \in [FailedKeys -> {"absent", "empty", "set"}] :
        /\ shape["message"] # "empty"
        /\ shape["detail"] # "empty" }

FailedResponses ==
    { PyDict(FailedDict(PyStr("failed"), shape)) : shape \in FailedShapes }
    \cup { PyDict(FailedDict(PyStr(st), [k \in FailedKeys |-> IF k = key THEN "set" ELSE "absent"])) :
            st \in {"FAILED", "Failed"}, key \in FailedKeys \cup {"none"} }

\* Payload values under data / records / results.
PayloadValues == {PyList(<<>>), PyList(<<Row1, Row2>>), Row1}

\* A dict with status ready; Absent leaves a key out.
ReadyDict(status, data, records, results, extra) ==
    LET given == [data |-> data, records |-> records, results |-> results,
                  title |-> extra.title, id |-> extra.id]
        present == {k \in DOMAIN given : given[k] # Absent}
    IN  [k \in present \cup {"status"} |-> IF k = "status" THEN status ELSE given[k]]

ReadyExtras ==
    { [title |-> t, id |-> i] : t \in {Absent, PyStr("Acme Corp")},
                                i \in {Absent, PyStr("s_8f3a1c2e")} }

ReadyResponses ==
    { PyDict(ReadyDict(PyStr("ready"), d, r, x, e)) :
        d \in PayloadValues \cup {Absent, PyNone},
        r \in {PyList(<<>>), PyList(<<Row2>>), Absent},
        x \in {Row2, PyInt(0), Absent},
        e \in ReadyExtras }
    \cup { PyDict(ReadyDict(PyStr("READY"), d, Absent, Absent, e)) :
            d \in {PyList(<<Row1>>), Absent}, e \in ReadyExtras }

\* Dicts whose status is neither ready nor failed, is missing, or is no string.
OtherStatusResponses ==
    { PyDict([status |-> st]) :
        st \in { PyStr("running"), PyStr("pending"), PyStr("processing"),
                 PyStr("scheduled"), PyStr("Running"), PyStr("building"),
                 PyStr(""), PyNone, PyInt(404) } }
    \cup { PyDict([data |-> PyList(<<Row1>>)]), PyDict(<<>>),
           PyDict([status |-> PyStr("running"), data |-> PyList(<<Row1>>)]) }

\* Values that are no dict.
NonDictResponses ==
    { PyNone, PyList(<<>>), PyList(<<Row1, Row2>>), PyStr(""), PyStr("name\nacme"),
      PyInt(0), PyInt(7) }

DownloadValues ==
    FailedResponses \cup ReadyResponses \cup OtherStatusResponses \cup NonDictResponses

----------------------------------------------------------------------------
(* _poll_and_get_snapshot_content                                          *)

\* str.lower() of the sampled status strings
StatusLower(s) ==
    CASE s = "READY"   -> "ready"
      [] s = "FAILED"  -> "failed"
      [] s = "Failed"  -> "failed"
      [] s = "Running" -> "running"
      [] OTHER -> s

metadata_keys ==
    {"status", "id", "snapshot_id", "created", "dataset_id", "customer_id",
     "cost", "initiation_type", "warning", "warning_code"}

\* What the try block of one attempt ends with.
TryReturn(v) == [out |-> "return", value |-> v]
TryNext == [out |-> "next"]
TryRaise(e) == [out |-> "raise", exc |-> e]

\* snapshot_data of a dict whose status is ready
ReadyData(d) ==
    LET picked == PyOr(PyOr(DictGet(d, "data"), DictGet(d, "records")),
                       DictGet(d, "results"))
    IN  IF picked.ty = "none"
        THEN PyDict(Restrict(d, (DOMAIN d) \ metadata_keys))
        ELSE picked

\* The first key of keys[from..] that is in d with a truthy value, or "" if none.
RECURSIVE FirstTruthyKey(_, _, _)
FirstTruthyKey(d, keys, from) ==
    IF from > Len(keys) THEN ""
    ELSE IF keys[from] \in DOMAIN d /\ Truthy(d[keys[from]]) THEN keys[from]
    ELSE FirstTruthyKey(d, keys, from + 1)

\* Mutant of FailedErrorMsg: the keys are read in another order (message first).
FailedErrorMsgMessageFirst(d) ==
    LET key == FirstTruthyKey(d, <<"message", "error", "warning", "detail", "details">>, 1)
    IN  IF key # "" THEN StrOf(d[key])
        ELSE IF "warning_code" \in DOMAIN d
        THEN "Snapshot failed with warning code: " \o StrOf(d["warning_code"])
        ELSE "Unknown error. Full response: {...}"

\* error_msg of a dict whose status is failed
FailedErrorMsg(d) ==
    LET key == FirstTruthyKey(d, ErrorKeys, 1)
    IN  IF key # "" THEN StrOf(d[key])
        ELSE IF "warning_code" \in DOMAIN d
        THEN "Snapshot failed with warning code: " \o StrOf(d["warning_code"])
        ELSE "Unknown error. Full response: {...}"

\* failed_message of the failed branch
SnapshotFailedMessage(sid, d) ==
    PyDict([snapshot_id |-> PyStr(sid), status |-> PyStr("failed"),
            error |-> PyStr(FailedErrorMsg(d)),
            error_type |-> PyStr("snapshot_failed")])

\* "Normalize to list": what is returned for a truthy snapshot_data
NormalizeToList(snapshot_data) ==
    IF snapshot_data.ty = "list" THEN snapshot_data
    ELSE PyList(<<snapshot_data>>)

\* Mutant of PollTry: a ready response is returned whatever its payload.
PollTryReturnsAnyPayload(sid, snapshot_response) ==
    IF snapshot_response.ty = "dict"
    THEN LET d == snapshot_response.d
             raw == DictGetDefault(d, "status", PyStr(""))
         IN  IF raw.ty # "str"
             THEN TryRaise(Exc("AttributeError",
                               IF raw.ty = "none" THEN MsgNoneLower ELSE MsgIntLower))
             ELSE LET status == StatusLower(raw.s)
                  IN  IF status = "ready"
                      THEN TryReturn(NormalizeToList(ReadyData(d)))
                      ELSE IF status = "failed"
                      THEN TryReturn(PyList(<<SnapshotFailedMessage(sid, d)>>))
                      ELSE TryNext
    ELSE IF Truthy(snapshot_response)
    THEN TryReturn(NormalizeToList(snapshot_response))
    ELSE TryNext

\* The try block, from the value download_snapshot returned to the return
\* statement, the raise, or the `attempt += 1` it reaches.
PollTry(sid, snapshot_response) ==
    IF snapshot_response.ty = "dict"
    THEN LET d == snapshot_response.d
             raw == DictGetDefault(d, "status", PyStr(""))
         IN  IF raw.ty # "str"
             THEN TryRaise(Exc("AttributeError",
                               IF raw.ty = "none" THEN MsgNoneLower ELSE MsgIntLower))
             ELSE LET status == StatusLower(raw.s)
                  IN  IF status = "ready"
                      THEN IF Truthy(ReadyData(d))
                           THEN TryReturn(NormalizeToList(ReadyData(d)))
                           ELSE TryNext
                      ELSE IF status = "failed"
                      THEN TryReturn(PyList(<<SnapshotFailedMessage(sid, d)>>))
                      ELSE TryNext
    ELSE IF Truthy(snapshot_response)
    THEN TryReturn(NormalizeToList(snapshot_response))
    ELSE TryNext

\* Mutant of IsNotFound: the message is searched as it is, not lowered.
IsNotFoundCaseSensitive(error_msg) ==
    \/ Contains(<<"4", "0", "4">>, error_msg)
    \/ Contains(<<"n", "o", "t", " ", "f", "o", "u", "n", "d">>, error_msg)
    \/ Contains(<<"d", "o", "e", "s", " ", "n", "o", "t", " ", "e", "x", "i", "s", "t">>,
                error_msg)

\* "404" in msg or "not found" in msg or "does not exist" in msg, msg lowered
IsNotFound(error_msg) ==
    LET error_msg_lower == Lower(error_msg)
    IN  \/ Contains(<<"4", "0", "4">>, error_msg_lower)
        \/ Contains(<<"n", "o", "t", " ", "f", "o", "u", "n", "d">>, error_msg_lower)
        \/ Contains(<<"d", "o", "e", "s", " ", "n", "o", "t", " ", "e", "x", "i", "s", "t">>,
                    error_msg_lower)

SnapshotNotFoundMessage(sid, e) ==
    PyDict([snapshot_id |-> PyStr(sid), status |-> PyStr("failed"),
            error |-> PyStr("Snapshot not found: " \o Join(e.msg)),
            error_type |-> PyStr("snapshot_not_found"),
            exception_type |-> PyStr(e.type)])

PollingFailedMessage(sid, n, e) ==
    PyDict([snapshot_id |-> PyStr(sid), status |-> PyStr("failed"),
            error |-> PyStr("Failed to poll/download snapshot after " \o Decimal(n)
                            \o " attempts: " \o Join(e.msg)),
            error_type |-> PyStr("polling_failed"),
            exception_type |-> PyStr(e.type)])

TimeoutMessage(sid, n) ==
    PyDict([snapshot_id |-> PyStr(sid), status |-> PyStr("failed"),
            error |-> PyStr("Snapshot did not complete within "
                            \o Decimal(n * poll_interval) \o " seconds"),
            error_type |-> PyStr("timeout")])

\* return value
PollReturn(value) ==
    /\ p_pc' = "done"
    /\ p_result' = [kind |-> "return", value |-> value]

\* an exception leaves the function
PollPropagate(e) ==
    /\ p_pc' = "done"
    /\ p_result' = [kind |-> "raise", exc |-> e]

\* Mutant of SleepBetweenAttempts: the sleep is unconditional.
SleepAfterEveryAttempt(attempt) ==
    p_sleeps' = p_sleeps + 1

\* if attempt < max_attempts: time.sleep(poll_interval), attempt being the
\* incremented counter
SleepBetweenAttempts(attempt) ==
    p_sleeps' = IF attempt < max_attempts THEN p_sleeps + 1 ELSE p_sleeps

\* attempt += 1; if attempt < max_attempts: time.sleep(poll_interval)
PollNextAttempt ==
    /\ p_attempt' = p_attempt + 1
    /\ SleepBetweenAttempts(p_attempt + 1)
    /\ UNCHANGED <<p_pc, p_result>>

\* Mutant of PollExcept: the handler is `except RequestException`, so any other
\* exception leaves the function.
PollExceptRequestsOnly(e) ==
    IF e.type \notin {"HTTPError", "ConnectionError", "Timeout"}
    THEN PollPropagate(e) /\ UNCHANGED <<p_attempt, p_sleeps>>
    ELSE IF IsNotFound(e.msg)
    THEN /\ PollReturn(PyList(<<SnapshotNotFoundMessage(snapshot_id, e)>>))
         /\ UNCHANGED <<p_attempt, p_sleeps>>
    ELSE /\ p_attempt' = p_attempt + 1
         /\ SleepBetweenAttempts(p_attempt + 1)
         /\ IF p_attempt + 1 < max_attempts
            THEN UNCHANGED <<p_pc, p_result>>
            ELSE PollReturn(PyList(<<PollingFailedMessage(snapshot_id, max_attempts, e)>>))

\* except Exception as e
PollExcept(e) ==
    IF e.base # "Exception"
    THEN PollPropagate(e) /\ UNCHANGED <<p_attempt, p_sleeps>>
    ELSE IF IsNotFound(e.msg)
    THEN /\ PollReturn(PyList(<<SnapshotNotFoundMessage(snapshot_id, e)>>))
         /\ UNCHANGED <<p_attempt, p_sleeps>>
    ELSE /\ p_attempt' = p_attempt + 1
         /\ SleepBetweenAttempts(p_attempt + 1)
         /\ IF p_attempt + 1 < max_attempts
            THEN UNCHANGED <<p_pc, p_result>>
            ELSE PollReturn(PyList(<<PollingFailedMessage(snapshot_id, max_attempts, e)>>))

\* One iteration of `while attempt < max_attempts`, download_snapshot having
\* answered with `outcome`.
PollAttempt(outcome) ==
    /\ p_pc = "polling"
    /\ p_attempt < max_attempts
    /\ p_calls' = p_calls + 1
    /\ p_last' = outcome
    /\ IF outcome.kind = "raise"
       THEN p_exc' = outcome.exc /\ p_caught' = TRUE /\ PollExcept(outcome.exc)
       ELSE LET t == PollTry(snapshot_id, outcome.value)
            IN  CASE t.out = "return" ->
                       /\ PollReturn(t.value)
                       /\ p_exc' = NoExc
                       /\ UNCHANGED p_caught
                       /\ UNCHANGED <<p_attempt, p_sleeps>>
                  [] t.out = "next" ->
                       PollNextAttempt /\ p_exc' = NoExc /\ UNCHANGED p_caught
                  [] t.out = "raise" ->
                       p_exc' = t.exc /\ p_caught' = TRUE /\ PollExcept(t.exc)
    /\ UNCHANGED <<snapshot_id, max_attempts>>

\* client.download_snapshot(snapshot_id) returns a value
PollDownloadReturns ==
    /\ \E v \in DownloadValues : PollAttempt([kind |-> "value", value |-> v])
    /\ UNCHANGED <<createVars, updateVars, callVars>>

\* client.download_snapshot(snapshot_id) raises
PollDownloadRaises ==
    /\ \E e \in DownloadExceptions : PollAttempt([kind |-> "raise", exc |-> e])
    /\ UNCHANGED <<createVars, updateVars, callVars>>

\* Mutant of PollExhausted: an exception caught in any attempt of the call
\* turns the record into polling_failed.
PollExhaustedReportsCaught ==
    /\ p_pc = "polling"
    /\ ~(p_attempt < max_attempts)
    /\ PollReturn(PyList(<<IF p_caught
                           THEN PollingFailedMessage(snapshot_id, max_attempts, p_exc)
                           ELSE TimeoutMessage(snapshot_id, max_attempts)>>))
    /\ UNCHANGED <<snapshot_id, max_attempts, p_attempt, p_calls, p_sleeps,
                   p_last, p_exc, p_caught>>
    /\ UNCHANGED <<createVars, updateVars, callVars>>

\* The while condition is false: the timeout record is returned.
PollExhausted ==
    /\ p_pc = "polling"
    /\ ~(p_attempt < max_attempts)
    /\ PollReturn(PyList(<<TimeoutMessage(snapshot_id, max_attempts)>>))
    /\ UNCHANGED <<snapshot_id, max_attempts, p_attempt, p_calls, p_sleeps,
                   p_last, p_exc, p_caught>>
    /\ UNCHANGED <<createVars, updateVars, callVars>>

\* _create_filtered_snapshot is not running.
CreateIdle ==
    /\ c_pc = "idle"
    /\ retries = 0
    /\ backoff_factor = <<1, 1>>
    /\ c_attempt = 0
    /\ backoff = <<1, 1>>
    /\ c_posts = 0
    /\ c_waits = <<>>
    /\ c_last = [kind |-> "none"]
    /\ c_kinds = {}
    /\ c_result = [kind |-> "none"]

\* _poll_and_get_snapshot_content is entered: attempt = 0
InitPoll ==
    /\ p_pc = "polling"
    /\ snapshot_id \in SnapshotIds
    /\ max_attempts \in (0..MaxAttemptsBound) \cup {DefaultMaxAttempts}
    /\ p_attempt = 0
    /\ p_calls = 0
    /\ p_sleeps = 0
    /\ p_last = [kind |-> "none"]
    /\ p_exc = NoExc
    /\ p_caught = FALSE
    /\ p_result = [kind |-> "none"]
    /\ CreateIdle
    /\ UpdateIdle
    /\ CallIdle

NextPoll == PollDownloadReturns \/ PollDownloadRaises \/ PollExhausted

SpecPoll == InitPoll /\ [][NextPoll]_vars


----------------------------------------------------------------------------
(* Properties of _poll_and_get_snapshot_content                            *)

FailureTypes == {"snapshot_failed", "snapshot_not_found", "polling_failed", "timeout"}

\* v is a list of one record whose status is failed and whose error_type is
\* one of `types`.
IsFailureList(v, types) ==
    /\ v.ty = "list"
    /\ Len(v.items) = 1
    /\ v.items[1].ty = "dict"
    /\ {"snapshot_id", "status", "error", "error_type"} \subseteq DOMAIN v.items[1].d
    /\ v.items[1].d["status"] = PyStr("failed")
    /\ v.items[1].d["error_type"] \in {PyStr(t) : t \in types}

\* The last download call returned a dict whose status is `failed` in any case.
LastStatusFailed ==
    /\ p_last.kind = "value"
    /\ p_last.value.ty = "dict"
    /\ "status" \in DOMAIN p_last.value.d
    /\ p_last.value.d["status"] \in {PyStr("failed"), PyStr("FAILED"), PyStr("Failed")}

\* The sampled messages that hold 404, not found or does not exist in some case.
NotFoundMessages == {Msg404, MsgNotFound, MsgNotFoundLower, MsgDoesNotExist}

\* The last attempt raised an exception with such a message.
LastRaisedNotFound == p_exc # NoExc /\ p_exc.msg \in NotFoundMessages

\* C1: for every sequence of download outcomes the call never raises: it ends
\* by returning a list, and when it ends on a failed status, on a not-found
\* exception or with its attempts exhausted, the list holds exactly one record
\* with status failed and an error_type among snapshot_failed,
\* snapshot_not_found, polling_failed and timeout.
C1_PollNeverRaises ==
    p_pc = "done" =>
        /\ p_result.kind = "return"
        /\ p_result.value.ty = "list"
        /\ (LastStatusFailed \/ LastRaisedNotFound \/ p_attempt >= max_attempts)
              => IsFailureList(p_result.value, FailureTypes)

\* C1 witness: every attempt of a call of at least two raised, the last one an
\* AttributeError from a status that is no string, and the call returned the
\* polling_failed record.
C1_Witness ==
    /\ p_pc = "done"
    /\ max_attempts >= 2
    /\ p_calls = max_attempts
    /\ p_last.kind = "value"
    /\ p_exc.type = "AttributeError"
    /\ IsFailureList(p_result.value, {"polling_failed"})

\* E as the claim states it: the value of the first of the six fields that is
\* present and non-empty; the unknown-error text when there is none.
ClaimedErrorMsg(d) ==
    LET key == FirstTruthyKey(d, ErrorKeys \o <<"warning_code">>, 1)
    IN  IF key = "" THEN "Unknown error. Full response: {...}"
        ELSE IF key = "warning_code"
        THEN "Snapshot failed with warning code: " \o StrOf(d[key])
        ELSE StrOf(d[key])

\* E as amended: warning_code is the fallback whenever it is present.
AmendedErrorMsg(d) ==
    LET key == FirstTruthyKey(d, ErrorKeys, 1)
    IN  IF key # "" THEN StrOf(d[key])
        ELSE IF "warning_code" \in DOMAIN d
        THEN "Snapshot failed with warning code: " \o StrOf(d["warning_code"])
        ELSE "Unknown error. Full response: {...}"

\* The call returned exactly [{snapshot_id, status, error, error_type}] with
\* the given error text and error_type snapshot_failed.
ReturnedSnapshotFailed(error) ==
    /\ p_pc = "done"
    /\ p_result.kind = "return"
    /\ p_result.value =
          PyList(<<PyDict([snapshot_id |-> PyStr(snapshot_id),
                           status |-> PyStr("failed"),
                           error |-> PyStr(error),
                           error_type |-> PyStr("snapshot_failed")])>>)

\* C2 as stated: a dict with status failed ends polling at that attempt with
\* the snapshot_failed record whose error comes from the first of error,
\* warning, message, detail, details, warning_code that is present and
\* non-empty.
C2_Original ==
    LastStatusFailed => ReturnedSnapshotFailed(ClaimedErrorMsg(p_last.value.d))

\* C2 amended: a dict with status failed ends polling at that attempt, without
\* raising, with exactly the snapshot_failed record; its error is str() of the
\* first of error, warning, message, detail, details that is present and
\* non-empty, else the warning-code text when warning_code is present (empty
\* or not), else the unknown-error text.
C2_FailedStatusRecord ==
    LastStatusFailed =>
        /\ ReturnedSnapshotFailed(AmendedErrorMsg(p_last.value.d))
        /\ p_attempt = p_calls - 1
        /\ p_sleeps = p_calls - 1

\* C2 witness: the second attempt answered failed with an empty error, a
\* warning and a message, and the record carries the warning.
C2_Witness ==
    /\ LastStatusFailed
    /\ p_calls = 2
    /\ DictGet(p_last.value.d, "error") = PyStr("")
    /\ {"warning", "message"} \subseteq DOMAIN p_last.value.d
    /\ Truthy(p_last.value.d["warning"])
    /\ ReturnedSnapshotFailed("dataset is empty")

\* C3: an attempt that raises an exception whose message holds 404, not found
\* or does not exist (in any case) ends the call at that attempt with a
\* one-record list of error_type snapshot_not_found: the attempt is not
\* counted, and every sleep made lies before it.
C3_NotFoundReturnsAtOnce ==
    LastRaisedNotFound =>
        /\ p_pc = "done"
        /\ p_result.kind = "return"
        /\ IsFailureList(p_result.value, {"snapshot_not_found"})
        /\ p_attempt = p_calls - 1
        /\ p_sleeps = p_calls - 1

\* C3 witness: the last allowed attempt of a call of three raised "Not Found".
C3_Witness ==
    /\ p_exc.msg = MsgNotFound
    /\ max_attempts = 3
    /\ p_calls = 3
    /\ p_pc = "done"
    /\ IsFailureList(p_result.value, {"snapshot_not_found"})

\* The counters of the polling loop: at most max_attempts download calls, a
\* sleep only after an attempt that another attempt follows, and a loop that
\* is never stuck before its end.
PollCountersBounded ==
    /\ DefaultMaxAttempts = 60
    /\ p_calls <= max_attempts
    /\ p_attempt <= max_attempts
    /\ p_sleeps <= p_calls
    /\ max_attempts > 0 => p_sleeps <= max_attempts - 1
    /\ (p_sleeps = p_calls /\ p_calls > 0) => (p_pc = "polling" /\ p_attempt < max_attempts)
    /\ p_pc = "done" => (p_result.kind # "none" /\ (p_calls > 0 => p_sleeps = p_calls - 1))
    /\ p_pc = "polling" => (p_attempt = p_calls /\ ENABLED NextPoll)

\* Every iteration that does not end the call uses up one attempt.
PollStepUsesAttempt ==
    p_pc' = "polling" => (p_attempt' = p_attempt + 1 /\ p_calls' = p_calls + 1)

\* C4: polling terminates: at most max_attempts download calls (60 by
\* default), at most max_attempts - 1 sleeps, each between two attempts and
\* none after the last; every iteration either ends the call or uses up one of
\* the max_attempts attempts, and the loop is never stuck, so the call ends.
C4_PollTerminates == []PollCountersBounded /\ [][PollStepUsesAttempt]_vars

\* C4 witness: all three attempts of a call were used, with two sleeps.
C4_Witness ==
    /\ p_pc = "done"
    /\ max_attempts = 3
    /\ p_calls = 3
    /\ p_sleeps = 2
    /\ IsFailureList(p_result.value, {"timeout"})

----------------------------------------------------------------------------
(* Inputs of _create_filtered_snapshot: what requests.post may answer.     *)

\* A response body: JSON text with its parsed value, or text that is no JSON.
JsonBody(v) == [json |-> TRUE, payload |-> v, text |-> ""]
TextBody(t) == [json |-> FALSE, payload |-> PyNone, text |-> t]

Response(status, body) == [kind |-> "response", status |-> status, body |-> body]

\* Bodies of a status-200 answer.
OkBodies ==
    { JsonBody(PyDict([snapshot_id |-> PyStr("s_8f3a1c2e")])),
      JsonBody(PyDict([snapshot_id |-> PyStr("s_01"), status |-> PyStr("scheduled")])),
      JsonBody(PyDict([snapshot_id |-> PyStr("")])),
      JsonBody(PyDict([snapshot_id |-> PyNone])),
      JsonBody(PyDict([snapshot_id |-> PyInt(12345)])),
      JsonBody(PyDict([message |-> PyStr("accepted")])),
      JsonBody(PyDict(<<>>)),
      JsonBody(PyList(<<>>)),
      JsonBody(PyList(<<PyDict([snapshot_id |-> PyStr("s_01")])>>)),
      JsonBody(PyStr("s_01")),
      JsonBody(PyNone),
      TextBody("OK"),
      TextBody("") }

\* Bodies of the other answers.
ErrorBodies ==
    { JsonBody(PyDict([error |-> PyStr("no credit")])),
      JsonBody(PyDict([validation_errors |->
                          PyList(<<PyStr("filter.name is required"), PyStr("bad operator")>>)])),
      JsonBody(PyDict([validation_errors |-> PyStr("bad filter"),
                       error |-> PyStr("invalid")])),
      TextBody("Bad Gateway") }

SampledStatuses ==
    {200, 400, 402, 422, 429, 408, 500, 502, 503, 504, 401, 403, 404, 201, 204, 304}

PostResponses ==
    { Response(200, b) : b \in OkBodies }
    \cup { Response(st, b) : st \in SampledStatuses \ {200}, b \in ErrorBodies }

\* An exception object of _create_filtered_snapshot: its class, its message and
\* the class of the exception it was raised from ("" when none).
Raised(type, msg, cause) == [type |-> type, msg |-> msg, cause |-> cause]

\* requests.post raises: no answer came.
PostExceptions ==
    { Raised("ConnectionError", "Connection refused", ""),
      Raised("Timeout", "Read timed out", "") }

\* Mutant of IsRequestException: the handler is `except Exception`.
IsAnyException(e) == TRUE

\* except RequestException catches its subclasses.
IsRequestException(e) ==
    e.type \in {"RequestException", "HTTPError", "ConnectionError", "Timeout"}

----------------------------------------------------------------------------
(* helpers/common.py: parse_response_payload, extract_error_detail         *)

\* response.json() or, when it raises ValueError, response.text
parse_response_payload(response) ==
    IF response.body.json THEN response.body.payload ELSE PyStr(response.body.text)

\* "; ".join(str(err) for err in errors)
RECURSIVE JoinErrors(_)
JoinErrors(errors) ==
    IF errors = <<>> THEN ""
    ELSE IF Len(errors) = 1 THEN StrOf(errors[1])
    ELSE StrOf(errors[1]) \o "; " \o JoinErrors(Tail(errors))

\* str() of a payload: scalars as they print, containers by their shape.
PayloadStr(v) ==
    CASE v.ty = "dict" -> IF DOMAIN v.d = {} THEN "{}" ELSE "{...}"
      [] v.ty = "list" -> IF v.items = <<>> THEN "[]" ELSE "[...]"
      [] OTHER -> StrOf(v)

\* The first key of keys[from..] that is in d, or "" if none.
RECURSIVE FirstPresentKey(_, _, _)
FirstPresentKey(d, keys, from) ==
    IF from > Len(keys) THEN ""
    ELSE IF keys[from] \in DOMAIN d THEN keys[from]
    ELSE FirstPresentKey(d, keys, from + 1)

extract_error_detail(response) ==
    IF ~response.body.json THEN response.body.text
    ELSE LET payload == response.body.payload
         IN  IF payload.ty # "dict" THEN PayloadStr(payload)
             ELSE IF "validation_errors" \in DOMAIN payload.d
             THEN IF payload.d["validation_errors"].ty = "list"
                  THEN JoinErrors(payload.d["validation_errors"].items)
                  ELSE PayloadStr(payload.d["validation_errors"])
             ELSE LET key == FirstPresentKey(payload.d,
                                             <<"error", "message", "detail", "details">>, 1)
                  IN  IF key = "" THEN PayloadStr(payload) ELSE PayloadStr(payload.d[key])

----------------------------------------------------------------------------
(* Rationals <<numerator, denominator>>, denominator > 0: the backoff.     *)

RatMul(a, b) == <<a[1] * b[1], a[2] * b[2]>>
RatLess(a, b) == a[1] * b[2] < b[1] * a[2]
RatEq(a, b) == a[1] * b[2] = b[1] * a[2]

RECURSIVE RatPow(_, _)
RatPow(a, k) == IF k = 0 THEN <<1, 1>> ELSE RatMul(a, RatPow(a, k - 1))

\* The backoff factors explored: 1.5 (the default of filter_dataset), 2 and 1.
BackoffFactors == {<<3, 2>>, <<2, 1>>, <<1, 1>>}

----------------------------------------------------------------------------
(* _create_filtered_snapshot                                               *)

\* What the try block of one iteration ends with: a return, a raise, a retry
\* (attempt += 1; sleep; backoff *= backoff_factor; continue) or its last
\* statement, after which the while condition is tested again.
CreateReturn(v) == [out |-> "return", value |-> v]
CreateRaise(e) == [out |-> "raise", exc |-> e]
CreateRetry == [out |-> "retry"]
CreateFallsThrough == [out |-> "end_of_try"]

\* response.raise_for_status(): HTTPError for 4xx and 5xx, nothing otherwise
raise_for_status(response) ==
    IF 400 <= response.status /\ response.status < 500
    THEN CreateRaise(Raised("HTTPError", Decimal(response.status) \o " Client Error", ""))
    ELSE IF 500 <= response.status /\ response.status < 600
    THEN CreateRaise(Raised("HTTPError", Decimal(response.status) \o " Server Error", ""))
    ELSE CreateFallsThrough

\* The statements after the status-200 block.
CreateOnStatus(response, attempt) ==
    LET status_code == response.status
        error_detail == extract_error_detail(response)
    IN  IF status_code = 400
        THEN CreateRaise(Raised("ValueError", "Invalid request parameters: " \o error_detail, ""))
        ELSE IF status_code = 402
        THEN CreateRaise(Raised("RuntimeError", "Insufficient account balance: " \o error_detail, ""))
        ELSE IF status_code = 422
        THEN CreateRaise(Raised("ValueError", "Filter did not match any records: " \o error_detail, ""))
        ELSE IF status_code = 429
        THEN IF attempt < retries
             THEN CreateRetry
             ELSE CreateRaise(Raised("RuntimeError", "Rate limit exceeded: " \o error_detail, ""))
        ELSE IF status_code \in RETRY_STATUS_CODES /\ attempt < retries
        THEN CreateRetry
        ELSE raise_for_status(response)

\* The try block, requests.post having returned `response`.
CreateTry(response, attempt) ==
    LET result == parse_response_payload(response)
    IN  IF response.status = 200 /\ result.ty = "dict"
        THEN LET id == DictGet(result.d, "snapshot_id")
             IN  IF Truthy(id)
                 THEN IF id.ty = "str"
                      THEN CreateReturn(PyStr(StrOf(id)))
                      \* snapshot_id[:8] in the log line
                      ELSE CreateRaise(Raised("TypeError", "'int' object is not subscriptable", ""))
                 ELSE CreateRaise(Raised("RuntimeError", "Response missing snapshot_id", ""))
        ELSE CreateOnStatus(response, attempt)

\* return / raise
CreateEnd(result) ==
    /\ c_pc' = "done"
    /\ c_result' = result
    /\ UNCHANGED <<c_attempt, backoff, c_waits>>

\* Mutant of CreateBackoffAndRetry: the backoff starts again at
\* backoff_factor when the error is of a kind not yet seen in the call.
CreateRetryBackoffPerKind ==
    LET fresh == c_kinds # {} /\ c_kinds' # c_kinds
        wait == IF fresh THEN backoff_factor ELSE backoff
    IN  /\ c_attempt' = c_attempt + 1
        /\ c_waits' = Append(c_waits, wait)
        /\ backoff' = RatMul(wait, backoff_factor)
        /\ UNCHANGED <<c_pc, c_result>>

\* Mutant of CreateBackoffAndRetry: the backoff is not multiplied.
CreateRetryConstantBackoff ==
    /\ c_attempt' = c_attempt + 1
    /\ c_waits' = Append(c_waits, backoff)
    /\ backoff' = backoff
    /\ UNCHANGED <<c_pc, c_result>>

\* attempt += 1; time.sleep(backoff); backoff *= backoff_factor; continue
CreateBackoffAndRetry ==
    /\ c_attempt' = c_attempt + 1
    /\ c_waits' = Append(c_waits, backoff)
    /\ backoff' = RatMul(backoff, backoff_factor)
    /\ UNCHANGED <<c_pc, c_result>>

\* Mutant of CreateExcept: the budget test is `attempt <= retries`.
CreateExceptOffByOne(exc) ==
    IF c_attempt <= retries
    THEN CreateBackoffAndRetry
    ELSE CreateEnd([kind |-> "raise",
                    exc |-> Raised("RuntimeError",
                                   "Failed to create filtered snapshot after "
                                       \o Decimal(retries) \o " retries: " \o exc.msg,
                                   exc.type)])

\* except RequestException as exc
CreateExcept(exc) ==
    IF c_attempt < retries
    THEN CreateBackoffAndRetry
    ELSE CreateEnd([kind |-> "raise",
                    exc |-> Raised("RuntimeError",
                                   "Failed to create filtered snapshot after "
                                       \o Decimal(retries) \o " retries: " \o exc.msg,
                                   exc.type)])

\* An exception raised in the try block: caught when it is a RequestException,
\* leaving the function otherwise.
CreateOnException(exc) ==
    IF IsRequestException(exc)
    THEN CreateExcept(exc)
    ELSE CreateEnd([kind |-> "raise", exc |-> exc])

\* The class of an outcome of requests.post.
OutcomeClass(outcome) ==
    IF outcome.kind = "raise" THEN "network"
    ELSE IF outcome.status = 429 THEN "429"
    ELSE IF outcome.status \in RETRY_STATUS_CODES THEN "transient"
    ELSE IF outcome.status = 200 THEN "200"
    ELSE IF outcome.status \in {400, 402, 422} THEN "fatal"
    ELSE "other"

\* One iteration of `while attempt <= retries`, requests.post having answered
\* with `outcome`.
CreateAttempt(outcome) ==
    /\ c_pc = "posting"
    /\ c_attempt <= retries
    /\ c_posts < MaxPosts
    /\ c_posts' = c_posts + 1
    /\ c_last' = outcome
    /\ c_kinds' = c_kinds \cup {OutcomeClass(outcome)}
    /\ IF outcome.kind = "raise"
       THEN CreateOnException(outcome.exc)
       ELSE LET t == CreateTry(outcome, c_attempt)
            IN  CASE t.out = "return" -> CreateEnd([kind |-> "return", value |-> t.value])
                  [] t.out = "raise" -> CreateOnException(t.exc)
                  [] t.out = "retry" -> CreateBackoffAndRetry
                  [] t.out = "end_of_try" ->
                       UNCHANGED <<c_pc, c_result, c_attempt, backoff, c_waits>>
    /\ UNCHANGED <<retries, backoff_factor>>

\* requests.post returns a response
CreatePostAnswered ==
    /\ \E r \in PostResponses : CreateAttempt(r)
    /\ UNCHANGED <<pollVars, updateVars, callVars>>

\* requests.post raises a RequestException
CreatePostFails ==
    /\ \E e \in PostExceptions : CreateAttempt([kind |-> "raise", exc |-> e])
    /\ UNCHANGED <<pollVars, updateVars, callVars>>

\* _poll_and_get_snapshot_content is not running.
PollIdle ==
    /\ p_pc = "idle"
    /\ snapshot_id = ""
    /\ max_attempts = 0
    /\ p_attempt = 0
    /\ p_calls = 0
    /\ p_sleeps = 0
    /\ p_last = [kind |-> "none"]
    /\ p_exc = NoExc
    /\ p_caught = FALSE
    /\ p_result = [kind |-> "none"]

\* _create_filtered_snapshot is entered: attempt = 0; backoff = backoff_factor
InitCreate ==
    /\ c_pc = "posting"
    /\ retries \in 0..MaxRetries
    /\ backoff_factor \in BackoffFactors
    /\ c_attempt = 0
    /\ backoff = backoff_factor
    /\ c_posts = 0
    /\ c_waits = <<>>
    /\ c_last = [kind |-> "none"]
    /\ c_kinds = {}
    /\ c_result = [kind |-> "none"]
    /\ PollIdle
    /\ UpdateIdle
    /\ CallIdle

NextCreate == CreatePostAnswered \/ CreatePostFails

SpecCreate == InitCreate /\ [][NextCreate]_vars

----------------------------------------------------------------------------
(* Properties of _create_filtered_snapshot                                 *)

\* The call raised an exception of class `type`.
CreateRaised(type) ==
    /\ c_pc = "done"
    /\ c_result.kind = "raise"
    /\ c_result.exc.type = type

\* C5: while every POST is answered 429 the k-th wait is backoff_factor^k, the
\* waits grow strictly when backoff_factor > 1, and the call ends exactly at
\* POST number retries + 1, after `retries` sleeps, by raising the rate-limit
\* RuntimeError.
C5_RateLimitRetries ==
    c_kinds = {"429"} =>
        /\ c_posts <= retries + 1
        /\ (c_pc = "done") = (c_posts = retries + 1)
        /\ Len(c_waits) = (IF c_pc = "done" THEN c_posts - 1 ELSE c_posts)
        /\ \A k \in 1..Len(c_waits) : RatEq(c_waits[k], RatPow(backoff_factor, k))
        /\ RatLess(<<1, 1>>, backoff_factor) =>
              \A k \in 1..(Len(c_waits) - 1) : RatLess(c_waits[k], c_waits[k + 1])
        /\ c_pc = "done" =>
              /\ CreateRaised("RuntimeError")
              /\ c_result.exc.msg = "Rate limit exceeded: " \o extract_error_detail(c_last)
              /\ Len(c_waits) = retries

\* C5 witness: retries = 3 and factor 1.5: four POSTs answered 429, waits of
\* 1.5, 2.25 and 3.375, then the rate-limit error.
C5_Witness ==
    /\ c_kinds = {"429"}
    /\ retries = 3
    /\ backoff_factor = <<3, 2>>
    /\ c_posts = 4
    /\ c_waits = <<<<3, 2>>, <<9, 4>>, <<27, 8>>>>
    /\ CreateRaised("RuntimeError")

\* The step handles a response of one of `statuses`.
HandlesStatus(statuses) ==
    /\ c_posts' = c_posts + 1
    /\ c_last'.kind = "response"
    /\ c_last'.status \in statuses

\* The step ends the call by raising `type`, without sleeping or retrying.
RaisesAtOnce(type) ==
    /\ c_pc' = "done"
    /\ c_result'.kind = "raise"
    /\ c_result'.exc.type = type
    /\ c_waits' = c_waits
    /\ c_attempt' = c_attempt

\* C6: a response with status 400, 402 or 422 ends the call in the iteration
\* that receives it, at any attempt: ValueError for 400 and 422, RuntimeError
\* for 402, with no sleep and no retry.
C6_FatalStatuses ==
    [][ /\ HandlesStatus({400, 422}) => RaisesAtOnce("ValueError")
        /\ HandlesStatus({402}) => RaisesAtOnce("RuntimeError") ]_vars

\* C6 witness: a 402 arrived as the answer to the third POST, after two
\* retries, and the call raised RuntimeError.
C6_Witness ==
    /\ c_last.kind = "response"
    /\ c_last.status = 402
    /\ c_posts = 3
    /\ Len(c_waits) = 2
    /\ CreateRaised("RuntimeError")
    /\ c_result.exc.msg = "Insufficient account balance: no credit"

\* C7 as stated: a response whose status is none of 200, 400, 402, 422, 429,
\* 408, 500, 502, 503, 504 ends the call with a raise at that response.
C7_OtherStatusFatal ==
    ( /\ c_last.kind = "response"
      /\ c_last.status \notin {200, 400, 402, 422, 429, 408, 500, 502, 503, 504} )
        => (c_pc = "done" /\ c_result.kind = "raise")

\* C8 as stated: a status-200 response ends the call at that attempt: with the
\* id as a string when the payload carries a non-empty snapshot_id, with the
\* missing-snapshot_id RuntimeError in every other case.
C8_OkResponseEndsCall ==
    (c_last.kind = "response" /\ c_last.status = 200) =>
        LET payload == c_last.body.payload
            has_id == /\ c_last.body.json
                      /\ payload.ty = "dict"
                      /\ "snapshot_id" \in DOMAIN payload.d
                      /\ Truthy(payload.d["snapshot_id"])
        IN  /\ c_pc = "done"
            /\ IF has_id
               THEN c_result = [kind |-> "return",
                                value |-> PyStr(StrOf(payload.d["snapshot_id"]))]
               ELSE /\ CreateRaised("RuntimeError")
                    /\ c_result.exc.msg = "Response missing snapshot_id"

\* The step handles a transient failure: 408, 500, 502, 503, 504 or a network
\* exception.
HandlesTransient ==
    /\ c_posts' = c_posts + 1
    /\ \/ c_last'.kind = "raise"
       \/ c_last'.kind = "response" /\ c_last'.status \in {408, 500, 502, 503, 504}

\* C9: a transient failure is retried, after one sleep of the current backoff,
\* while fewer than `retries` retries were made; at the last allowed attempt it
\* makes the call raise a RuntimeError (raised from the network exception in
\* the network case), never return; there are never more than `retries`
\* retries, one sleep each.
C9_TransientRetries ==
    /\ [](c_attempt <= retries /\ Len(c_waits) = c_attempt)
    /\ [][ HandlesTransient =>
             IF c_attempt < retries
             THEN /\ c_pc' = "posting"
                  /\ c_attempt' = c_attempt + 1
                  /\ c_waits' = Append(c_waits, backoff)
             ELSE /\ c_pc' = "done"
                  /\ c_result'.kind = "raise"
                  /\ c_result'.exc.type = "RuntimeError"
                  /\ c_waits' = c_waits
                  /\ c_last'.kind = "raise" =>
                        c_result'.exc.cause = c_last'.exc.type ]_vars

\* C9 witness: retries = 2; a network exception, then two 503: the third POST
\* ends the call with a RuntimeError after two sleeps.
C9_Witness ==
    /\ retries = 2
    /\ c_kinds = {"network", "transient"}
    /\ c_posts = 3
    /\ Len(c_waits) = 2
    /\ c_last.kind = "response"
    /\ c_last.status = 503
    /\ CreateRaised("RuntimeError")

\* C10 as stated: the call makes at most retries + 1 POST requests.
C10_BoundedPosts == c_posts <= retries + 1

----------------------------------------------------------------------------
(* Python strings are TLA+ strings; Head, Tail, SubSeq, Len and \o work on  *)
(* them character by character.                                            *)

\* s.strip(chars)
RECURSIVE StripChars(_, _)
StripChars(s, chars) ==
    IF s = "" THEN ""
    ELSE IF Head(s) \in chars THEN StripChars(Tail(s), chars)
    ELSE IF SubSeq(s, Len(s), Len(s)) \in chars
         THEN StripChars(SubSeq(s, 1, Len(s) - 1), chars)
    ELSE s

\* Mutant of Strip: only the leading whitespace is removed.
RECURSIVE StripLeading(_)
StripLeading(s) ==
    IF s # "" /\ Head(s) \in {" ", "\n"} THEN StripLeading(Tail(s)) ELSE s

\* s.strip(): of the characters of the model, space and newline are whitespace
Strip(s) == StripChars(s, {" ", "\n"})

\* c in s, for one character c
HasChar(s, c) == \E i \in 1..Len(s) : SubSeq(s, i, i) = c

\* s.split(sep), for a separator of one character
RECURSIVE Split(_, _)
Split(s, sep) ==
    IF ~HasChar(s, sep) THEN <<s>>
    ELSE LET i == CHOOSE i \in 1..Len(s) :
                    /\ SubSeq(s, i, i) = sep
                    /\ \A j \in 1..(i - 1) : SubSeq(s, j, j) # sep
         IN  <<SubSeq(s, 1, i - 1)>> \o Split(SubSeq(s, i + 1, Len(s)), sep)

----------------------------------------------------------------------------
(* json.loads, for texts made of the characters                            *)
(*     a  1  space  newline  ,  :  "  \  [  ]  {  }                        *)
(* Over these the JSON values are arrays, objects, strings whose only      *)
(* escapes are \" and \\, and the numbers 1, 11, ...; a raw newline inside *)
(* a string is a control character and a decoding error.                   *)

\* json.loads(s): the value decoded, or a decoding error. A scan gives the
\* value and the text after it.
json_loads(s) ==
    LET Scanned(val, rest) == [ok |-> TRUE, val |-> val, rest |-> rest]
        JSONDecodeError == [ok |-> FALSE]
        RECURSIVE SkipWs(_)
        RECURSIVE ScanString(_, _)
        RECURSIVE ScanNumber(_, _)
        RECURSIVE ScanValue(_)
        RECURSIVE ScanArray(_, _)
        RECURSIVE ScanObject(_, _)
        \* json.decoder.WHITESPACE, skipped before and after every token
        SkipWs(t) == IF t # "" /\ Head(t) \in {" ", "\n"} THEN SkipWs(Tail(t)) ELSE t
        \* json.decoder.py_scanstring: t is the text after the opening quote
        ScanString(t, acc) ==
            IF t = "" THEN JSONDecodeError
            ELSE IF Head(t) = "\"" THEN Scanned(PyStr(acc), Tail(t))
            ELSE IF Head(t) = "\\"
                 THEN IF Len(t) >= 2 /\ SubSeq(t, 2, 2) \in {"\"", "\\"}
                      THEN ScanString(SubSeq(t, 3, Len(t)), acc \o SubSeq(t, 2, 2))
                      ELSE JSONDecodeError
            ELSE IF Head(t) = "\n" THEN JSONDecodeError
            ELSE ScanString(Tail(t), acc \o Head(t))
        \* the number at the start of t: a run of the digit 1
        ScanNumber(t, n) ==
            IF t # "" /\ Head(t) = "1" THEN ScanNumber(Tail(t), 10 * n + 1)
            ELSE Scanned(PyInt(n), t)
        \* json.scanner.scan_once: t starts at the value
        ScanValue(t) ==
            IF t = "" THEN JSONDecodeError
            ELSE CASE Head(t) = "\"" -> ScanString(Tail(t), "")
                   [] Head(t) = "1" -> ScanNumber(t, 0)
                   [] Head(t) = "[" ->
                        LET u == SkipWs(Tail(t))
                        IN  IF u # "" /\ Head(u) = "]"
                            THEN Scanned(PyList(<<>>), Tail(u))
                            ELSE ScanArray(u, <<>>)
                   [] Head(t) = "{" ->
                        LET u == SkipWs(Tail(t))
                        IN  IF u # "" /\ Head(u) = "}"
                            THEN Scanned(PyDict(<<>>), Tail(u))
                            ELSE ScanObject(u, <<>>)
                   [] OTHER -> JSONDecodeError
        \* JSONArray, after `[` or `,`: a value, then `,` or `]`
        ScanArray(t, items) ==
            LET v == ScanValue(t)
                u == SkipWs(v.rest)
            IN  IF ~v.ok \/ u = "" THEN JSONDecodeError
                ELSE IF Head(u) = ","
                THEN ScanArray(SkipWs(Tail(u)), Append(items, v.val))
                ELSE IF Head(u) = "]"
                THEN Scanned(PyList(Append(items, v.val)), Tail(u))
                ELSE JSONDecodeError
        \* JSONObject, after `{` or `,`: a string key, `:`, a value, then `,` or `}`
        ScanObject(t, pairs) ==
            IF t = "" \/ Head(t) # "\"" THEN JSONDecodeError
            ELSE
            LET k == ScanString(Tail(t), "")
                c == SkipWs(k.rest)
            IN  IF ~k.ok \/ c = "" \/ Head(c) # ":" THEN JSONDecodeError
                ELSE
                LET v == ScanValue(SkipWs(Tail(c)))
                    u == SkipWs(v.rest)
                    d == (k.val.s :> v.val) @@ pairs
                IN  IF ~v.ok \/ u = "" THEN JSONDecodeError
                    ELSE IF Head(u) = "," THEN ScanObject(SkipWs(Tail(u)), d)
                    ELSE IF Head(u) = "}" THEN Scanned(PyDict(d), Tail(u))
                    ELSE JSONDecodeError
        \* JSONDecoder.decode: one value between whitespace, nothing after it
        decoded == ScanValue(SkipWs(s))
    IN  IF decoded.ok /\ SkipWs(decoded.rest) = "" THEN decoded ELSE JSONDecodeError

----------------------------------------------------------------------------
(* The Input Normalizer: _parse_scrape_urls, _parse_search_queries and     *)
(* _parse_unlocker_urls have the same body. A Python list of str is a      *)
(* sequence of strings.                                                    *)

\* Mutant of parse_scrape_urls: the newline split is tried before the comma
\* split.
parse_newline_first(scrape_url_input) ==
    LET text == scrape_url_input.s
        parsed == json_loads(text)
        StripStrItems(items) ==
            LET kept == SelectSeq(items, LAMBDA x : x.ty = "str" /\ Strip(x.s) # "")
            IN  [i \in 1..Len(kept) |-> Strip(kept[i].s)]
        SplitItems(sep) ==
            LET kept == SelectSeq(Split(text, sep), LAMBDA x : Strip(x) # "")
            IN  [i \in 1..Len(kept) |-> Strip(kept[i])]
    IN  IF ~Truthy(scrape_url_input) THEN <<>>
        ELSE IF scrape_url_input.ty = "list"
        THEN StripStrItems(scrape_url_input.items)
        ELSE IF scrape_url_input.ty = "str"
        THEN IF parsed.ok /\ parsed.val.ty = "list"
             THEN StripStrItems(parsed.val.items)
             ELSE IF parsed.ok /\ parsed.val.ty = "str" /\ Strip(parsed.val.s) # ""
             THEN <<Strip(parsed.val.s)>>
             ELSE IF HasChar(text, "\n") THEN SplitItems("\n")
             ELSE IF HasChar(text, ",") THEN SplitItems(",")
             ELSE IF Strip(text) # "" THEN <<Strip(text)>>
             ELSE <<>>
        ELSE <<>>

\* Mutant of parse_scrape_urls: the comma split is tried before json.loads.
parse_comma_first(scrape_url_input) ==
    LET text == scrape_url_input.s
        parsed == json_loads(text)
        StripStrItems(items) ==
            LET kept == SelectSeq(items, LAMBDA x : x.ty = "str" /\ Strip(x.s) # "")
            IN  [i \in 1..Len(kept) |-> Strip(kept[i].s)]
        SplitItems(sep) ==
            LET kept == SelectSeq(Split(text, sep), LAMBDA x : Strip(x) # "")
            IN  [i \in 1..Len(kept) |-> Strip(kept[i])]
    IN  IF ~Truthy(scrape_url_input) THEN <<>>
        ELSE IF scrape_url_input.ty = "list"
        THEN StripStrItems(scrape_url_input.items)
        ELSE IF scrape_url_input.ty = "str"
        THEN IF HasChar(text, ",") THEN SplitItems(",")
             ELSE IF parsed.ok /\ parsed.val.ty = "list"
             THEN StripStrItems(parsed.val.items)
             ELSE IF parsed.ok /\ parsed.val.ty = "str" /\ Strip(parsed.val.s) # ""
             THEN <<Strip(parsed.val.s)>>
             ELSE IF HasChar(text, "\n") THEN SplitItems("\n")
             ELSE IF Strip(text) # "" THEN <<Strip(text)>>
             ELSE <<>>
        ELSE <<>>

\* _parse_scrape_urls(scrape_url_input)
parse_scrape_urls(scrape_url_input) ==
    LET text == scrape_url_input.s
        parsed == json_loads(text)
        \* [item.strip() for item in items if isinstance(item, str) and item.strip()]
        StripStrItems(items) ==
            LET kept == SelectSeq(items, LAMBDA x : x.ty = "str" /\ Strip(x.s) # "")
            IN  [i \in 1..Len(kept) |-> Strip(kept[i].s)]
        \* [item.strip() for item in text.split(sep) if item.strip()]
        SplitItems(sep) ==
            LET kept == SelectSeq(Split(text, sep), LAMBDA x : Strip(x) # "")
            IN  [i \in 1..Len(kept) |-> Strip(kept[i])]
    IN  IF ~Truthy(scrape_url_input) THEN <<>>
        ELSE IF scrape_url_input.ty = "list"
        THEN StripStrItems(scrape_url_input.items)
        ELSE IF scrape_url_input.ty = "str"
        THEN IF parsed.ok /\ parsed.val.ty = "list"
             THEN StripStrItems(parsed.val.items)
             ELSE IF parsed.ok /\ parsed.val.ty = "str" /\ Strip(parsed.val.s) # ""
             THEN <<Strip(parsed.val.s)>>
             ELSE IF HasChar(text, ",") THEN SplitItems(",")
             ELSE IF HasChar(text, "\n") THEN SplitItems("\n")
             ELSE IF Strip(text) # "" THEN <<Strip(text)>>
             ELSE <<>>
        ELSE <<>>

\* _parse_search_queries(search_query_input): the same statements
parse_search_queries(search_query_input) == parse_scrape_urls(search_query_input)

\* _parse_unlocker_urls(unlocker_url_input): the same statements
parse_unlocker_urls(unlocker_url_input) == parse_scrape_urls(unlocker_url_input)

----------------------------------------------------------------------------
(* More of Python: str.strip(chars), str.isdigit(), int(), repr()          *)

\* A raised exception has a type; no exception has none.
NoError == Raised("", "", "")

\* int(s) when s.isdigit(), for decimal digits; -1 when s is not all digits
RECURSIVE DigitsValue(_)
DigitsValue(s) ==
    LET c == SubSeq(s, Len(s), Len(s))
        digit == CASE c = "0" -> 0 [] c = "1" -> 1 [] c = "2" -> 2 [] c = "3" -> 3
                   [] c = "4" -> 4 [] c = "5" -> 5 [] c = "6" -> 6 [] c = "7" -> 7
                   [] c = "8" -> 8 [] c = "9" -> 9 [] OTHER -> -1
        front == IF Len(s) = 1 THEN 0 ELSE DigitsValue(SubSeq(s, 1, Len(s) - 1))
    IN  IF s = "" THEN -1
        ELSE IF digit < 0 \/ front < 0 THEN -1
        ELSE 10 * front + digit

\* str(v): as StrOf, and the repr of a list of scalars
Str(v) ==
    LET Repr(x) == IF x.ty = "str" THEN "'" \o x.s \o "'" ELSE StrOf(x)
        Items[i \in 0..Len(v.items)] ==
            IF i = 0 THEN ""
            ELSE IF i = 1 THEN Repr(v.items[1])
            ELSE Items[i - 1] \o ", " \o Repr(v.items[i])
    IN  IF v.ty = "list" THEN "[" \o Items[Len(v.items)] \o "]" ELSE StrOf(v)

\* The concatenation of a sequence of sequences.
RECURSIVE Concat(_)
Concat(seqs) == IF seqs = <<>> THEN <<>> ELSE Head(seqs) \o Concat(Tail(seqs))

----------------------------------------------------------------------------
(* helpers/data_processing.py (SERP connector)                             *)

\* Mutant of flatten_dict: the separator is written also before a top-level
\* key.
RECURSIVE flatten_dict_prefixes(_, _)
flatten_dict_prefixes(data, parent_key) ==
    LET new_key(key) == parent_key \o "_" \o key
        items(key) == IF data[key].ty = "dict"
                      THEN flatten_dict_prefixes(data[key].d, new_key(key))
                      ELSE new_key(key) :> data[key]
        names == UNION { DOMAIN items(key) : key \in DOMAIN data }
    IN  [name \in names |->
            items(CHOOSE key \in DOMAIN data : name \in DOMAIN items(key))[name]]

\* flatten_dict(data, parent_key, sep="_"); two sampled keys never flatten
\* to the same name, so the order of the items does not show.
RECURSIVE flatten_dict(_, _)
flatten_dict(data, parent_key) ==
    LET new_key(key) == IF parent_key # "" THEN parent_key \o "_" \o key ELSE key
        items(key) == IF data[key].ty = "dict"
                      THEN flatten_dict(data[key].d, new_key(key))
                      ELSE new_key(key) :> data[key]
        names == UNION { DOMAIN items(key) : key \in DOMAIN data }
    IN  [name \in names |->
            items(CHOOSE key \in DOMAIN data : name \in DOMAIN items(key))[name]]

\* Mutant of collect_all_fields: only the keys every record has.
collect_common_fields(rows) ==
    { k \in UNION { DOMAIN rows[i] : i \in 1..Len(rows) } :
        \A i \in 1..Len(rows) : k \in DOMAIN rows[i] }

\* collect_all_fields(results): the union of the keys of the results
collect_all_fields(rows) == UNION { DOMAIN rows[i] : i \in 1..Len(rows) }

\* Mutant of ConflictsWith: only the exact name is a conflict.
ConflictsExactly(k, pk_field) == k = pk_field

\* process_search_result: the keys popped from `flattened` for one pk_field
ConflictsWith(k, pk_field) ==
    LET startswith(prefix) ==
            Len(k) >= Len(prefix) /\ SubSeq(k, 1, Len(prefix)) = prefix
        endswith(suffix) ==
            Len(k) >= Len(suffix)
            /\ SubSeq(k, Len(k) - Len(suffix) + 1, Len(k)) = suffix
    IN  \/ k = pk_field
        \/ endswith("_" \o pk_field)
        \/ startswith(pk_field \o "_")

\* process_search_result(result, query, result_index)
process_search_result(result, query, result_index) ==
    LET base_fields == [query |-> PyStr(query),
                        result_index |-> PyInt(result_index),
                        position |-> PyInt(result_index + 1)]
        flattened == flatten_dict(result.d, "")
        kept == { k \in DOMAIN flattened :
                    \A pk_field \in {"query", "result_index"} :
                        ~ConflictsWith(k, pk_field) }
    IN  IF result.ty # "dict"
        THEN ("raw_response" :> PyStr(Str(result))) @@ base_fields
        ELSE base_fields @@ Restrict(flattened, kept)

----------------------------------------------------------------------------
(* The Sync Orchestrator: inputs                                           *)

\* Rows in the largest batch the vendor API returns, and the latest op.upsert
\* call that fails.
MaxRows == 2

Connectors == {"dataset", "scrape", "serp", "unlocker"}

\* The configuration key holding the URLs or queries of a connector.
InputKey(c) ==
    CASE c = "scrape" -> "scrape_url"
      [] c = "serp" -> "search_query"
      [] c = "unlocker" -> "unlocker_url"
      [] OTHER -> "dataset_id"

\* A mapping with the sampled keys that are present.
Present(rec) == Restrict(rec, { k \in DOMAIN rec : rec[k] # Absent })

\* The configurations update is called with: flat mappings of strings.
Configurations(c) ==
    LET ApiTokens == {Absent, PyStr(""), PyStr("token")}
        InputTexts == {Absent, PyStr(""), PyStr("[]"), PyStr(","), PyStr(" "),
                       PyStr("a"), PyStr("a,b"), PyStr("a,a")}
        RecordsLimits == {Absent, PyStr("10"), PyStr("0"), PyStr("abc")}
    IN
    IF c = "dataset"
    THEN { Present([api_token |-> t, dataset_id |-> d,
                    filter_name |-> PyStr("name"), filter_operator |-> o,
                    filter_value |-> PyStr("acme"), records_limit |-> l]) :
             t \in ApiTokens, d \in {Absent, PyStr("gd_1")},
             o \in {PyStr("="), PyStr("IS_NULL")}, l \in RecordsLimits }
    ELSE { Present((InputKey(c) :> u)
                   @@ [api_token |-> t, dataset_id |-> PyStr("gd_1")]) :
             t \in ApiTokens, u \in InputTexts }

\* The states update is called with: None on the first sync, or a mapping.
InputStates ==
    { PyNone, PyDict(<<>>),
      PyDict([last_dataset_id |-> PyStr("gd_0"), cursor |-> PyInt(7),
              last_record_count |-> PyInt(5), last_scrape_count |-> PyInt(5),
              last_search_count |-> PyInt(5), last_unlocker_count |-> PyInt(5),
              last_search_queries |-> PyList(<<PyStr("old")>>)]) }

\* The answers of download_snapshot that are told apart, call by call, in one
\* fetch of the dataset connector; the last one is repeated from then on.
MaxAnswers == 2

\* _poll_and_get_snapshot_content as a function of the answers of
\* download_snapshot: outcomes[k] answers the k-th call, the last of them
\* every later call. From the last answer on every iteration of the loop is
\* the same, so one that does not return runs the loop to its end: to the
\* timeout record, or to the polling_failed record of the n-th attempt.
poll_and_get_snapshot_content(sid, outcomes, n) ==
    LET RECURSIVE From(_)
        From(attempt) ==
            IF ~(attempt < n) THEN PyList(<<TimeoutMessage(sid, n)>>)
            ELSE LET outcome == outcomes[attempt + 1]
                     repeats == attempt + 1 = Len(outcomes)
                     t == IF outcome.kind = "raise" THEN TryRaise(outcome.exc)
                          ELSE PollTry(sid, outcome.value)
                 IN  CASE t.out = "return" -> t.value
                       [] t.out = "next" ->
                            IF repeats THEN PyList(<<TimeoutMessage(sid, n)>>)
                            ELSE From(attempt + 1)
                       [] t.out = "raise" ->
                            IF IsNotFound(t.exc.msg)
                            THEN PyList(<<SnapshotNotFoundMessage(sid, t.exc)>>)
                            ELSE IF attempt + 1 < n /\ ~repeats THEN From(attempt + 1)
                            ELSE PyList(<<PollingFailedMessage(sid, n, t.exc)>>)
    IN  From(0)

\* What filter_dataset returns once the snapshot is created: what polling
\* returns, for the sampled answers of download_snapshot.
DatasetRecords ==
    LET Batch(n) == PyList([i \in 1..n |-> IF i % 2 = 1 THEN Row1 ELSE Row2])
        Ready(d) == PyDict([status |-> PyStr("ready")] @@ d)
        Values ==
            { Batch(n) : n \in 0..MaxRows }
            \cup { PyList(<<PyList(<<PyStr("x")>>), Row2>>),
                   PyList(<<PyStr("<html>"), Row1>>), PyNone,
                   PyDict([status |-> PyStr("running")]),
                   Ready(<<>>), Ready([results |-> PyList(<<>>)]),
                   Ready([data |-> Batch(2)]), Ready([title |-> PyStr("Acme Corp")]),
                   PyDict([status |-> PyStr("failed"),
                           error |-> PyStr("quota exceeded")]) }
        Downloads ==
            { [kind |-> "value", value |-> v] : v \in Values }
            \cup { [kind |-> "raise", exc |-> e] :
                     e \in {Exc("HTTPError", Msg404), Exc("Timeout", MsgTimedOut)} }
        Answers == UNION { [1..len -> Downloads] : len \in 1..MaxAnswers }
    IN  { poll_and_get_snapshot_content("s_8f3a1c2e", outcomes, DefaultMaxAttempts) :
            outcomes \in Answers }

\* What the vendor API can answer to one fetch of connector c: a batch of
\* up to MaxRows records, one record, a page, nested lists; for the scrape
\* connector also a record next to a list of records. The dataset connector
\* fetches with filter_dataset.
ResponsesOf(c) ==
    LET Batch(n) == PyList([i \in 1..n |-> IF i % 2 = 1 THEN Row1 ELSE Row2])
        Responses ==
            { Batch(n) : n \in 0..MaxRows }
            \cup { Row1, PyStr("<html>"), PyList(<<PyList(<<PyStr("x")>>), Row2>>),
                   PyList(<<PyStr("<html>"), Row1>>) }
    IN  IF c = "dataset" THEN DatasetRecords
        ELSE IF c = "scrape"
        THEN Responses \cup { PyList(<<Row2, PyList(<<Row1>>)>>) }
        ELSE Responses

\* The call of the invocation that fails, if any: the construction of the
\* vendor client (dataset connector), the fetch, the processing of a result,
\* the k-th op.upsert or op.checkpoint.
Faults ==
    LET FetchErrors ==
            { Raised("RuntimeError", "Insufficient balance", ""),
              Raised("ValueError", "snapshot_id cannot be empty", ""),
              Raised("TypeError", "'int' object is not subscriptable", "") }
    IN  { [at |-> "none"], [at |-> "client"], [at |-> "flatten"],
          [at |-> "checkpoint"] }
        \cup { [at |-> "fetch", exc |-> e] : e \in FetchErrors }
        \cup { [at |-> "upsert", k |-> k] : k \in 1..MaxRows }

----------------------------------------------------------------------------
(* Configuration Validator                                                 *)

\* Mutant of validate_configuration: the URL is checked before the token.
validate_url_first(config) ==
    IF ~Truthy(DictGet(config, "unlocker_url"))
    THEN Raised("ValueError", "unlocker_url cannot be empty", "")
    ELSE IF "api_token" \notin DOMAIN config \/ ~Truthy(DictGet(config, "api_token"))
    THEN Raised("ValueError", "Missing required configuration value: api_token", "")
    ELSE NoError

\* unlocker/helpers/validation.py: validate_configuration(configuration)
validate_configuration(config) ==
    IF "api_token" \notin DOMAIN config \/ ~Truthy(DictGet(config, "api_token"))
    THEN Raised("ValueError", "Missing required configuration value: api_token", "")
    ELSE IF ~Truthy(DictGet(config, "unlocker_url"))
    THEN Raised("ValueError", "unlocker_url cannot be empty", "")
    ELSE NoError

\* validate_configuration of the other connectors: the first required key
\* that is absent or empty is reported.
RECURSIVE validate_required(_, _)
validate_required(config, required) ==
    IF required = <<>> THEN NoError
    ELSE IF ~Truthy(DictGet(config, Head(required)))
    THEN Raised("ValueError",
                "Missing required configuration value: " \o Head(required), "")
    ELSE validate_required(config, Tail(required))

\* The validate_configuration that update of connector c imports, with the
\* required keys of the other connectors, api_token first.
Validate(c, config) ==
    CASE c = "unlocker" -> validate_configuration(config)
      [] c = "dataset" ->
           validate_required(config, <<"api_token", "dataset_id", "filter_name",
                                       "filter_operator">>)
      [] c = "scrape" -> validate_required(config, <<"api_token", "scrape_url">>)
      [] c = "serp" -> validate_required(config, <<"api_token", "search_query">>)

----------------------------------------------------------------------------
(* The Sync Orchestrator: what update computes                             *)

\* str.lower()
RECURSIVE LowerStr(_)
LowerStr(s) == IF s = "" THEN "" ELSE LowerChar(Head(s)) \o LowerStr(Tail(s))

\* A Python list of str as a value.
StrList(strs) == PyList([i \in 1..Len(strs) |-> PyStr(strs[i])])

\* `if not isinstance(x, list): x = [x]`
AsList(v) == IF v.ty = "list" THEN v.items ELSE <<v>>

\* dataset update: records_limit, or the ValueError of its parsing
records_limit_of(config) ==
    LET records_limit_str == DictGet(config, "records_limit")
        text == records_limit_str.s
    IN  IF records_limit_str.ty = "none" THEN [ok |-> TRUE, value |-> PyNone]
        ELSE IF DigitsValue(text) < 0
        THEN [ok |-> FALSE,
              exc |-> Raised("ValueError",
                  "records_limit must be a valid positive integer: "
                  \o "invalid literal for int() with base 10: '" \o text \o "'",
                  "ValueError")]
        ELSE IF DigitsValue(text) <= 0
        THEN [ok |-> FALSE,
              exc |-> Raised("ValueError",
                  "records_limit must be a valid positive integer: "
                  \o "records_limit must be a positive integer", "ValueError")]
        ELSE [ok |-> TRUE, value |-> PyInt(DigitsValue(text))]

\* dataset update: filter_obj
filter_obj_of(config) ==
    LET filter_operator == DictGet(config, "filter_operator")
    IN  Present([name |-> DictGet(config, "filter_name"),
                 operator |-> filter_operator,
                 value |-> IF LowerStr(filter_operator.s) \in {"is_null", "is_not_null"}
                           THEN Absent ELSE DictGet(config, "filter_value")])

\* The Input Normalizer of connector c.
ParseInput(c, v) ==
    CASE c = "scrape" -> parse_scrape_urls(v)
      [] c = "serp" -> parse_search_queries(v)
      [] c = "unlocker" -> parse_unlocker_urls(v)

\* What the fetch is called with: filter_dataset(dataset_id, filter_obj,
\* records_limit), perform_scrape(url=urls), perform_search(query=...),
\* perform_web_unlocker(url=...)
FetchArg(c, config, list) ==
    CASE c = "dataset" ->
           PyDict([dataset_id |-> DictGet(config, "dataset_id"),
                   filter_obj |-> PyDict(filter_obj_of(config)),
                   records_limit |-> records_limit_of(config).value])
      [] c = "scrape" -> StrList(list)
      [] OTHER -> IF Len(list) > 1 THEN StrList(list) ELSE PyStr(list[1])

\* Mutant of WrapSync: the known error types are re-raised as they are.
WrapSyncKeepsKnown(exc) ==
    IF exc.type \in {"RuntimeError", "ValueError"} THEN exc
    ELSE Raised("RuntimeError", "Failed to sync data from Bright Data: " \o exc.msg,
                exc.type)

\* update: `except Exception as exc: raise RuntimeError(...) from exc`
WrapSync(exc) ==
    Raised("RuntimeError", "Failed to sync data from Bright Data: " \o exc.msg,
           exc.type)

\* process_dataset_record, process_scrape_result, process_unlocker_result:
\* the flattened result without the keys that conflict with a primary key,
\* and the primary-key values written last.
process_result(result, key_field, key, index_field, index) ==
    LET base_fields == (key_field :> key) @@ (index_field :> PyInt(index))
        flattened == flatten_dict(result.d, "")
        kept == { k \in DOMAIN flattened :
                    \A pk_field \in {key_field, index_field} :
                        ~ConflictsWith(k, pk_field) }
    IN  IF result.ty # "dict"
        THEN ("raw_response" :> PyStr(Str(result))) @@ base_fields
        ELSE base_fields @@ Restrict(flattened, kept)

\* _sync_dataset_records: processed_results
DatasetProcessed(records, dataset_id) ==
    LET items == AsList(records)
    IN  [i \in 1..Len(items) |->
            process_result(items[i], "dataset_id", dataset_id, "record_index", i - 1)]

\* _sync_unlocker_urls: processed_results, when every result is a mapping
UnlockerProcessed(unlocker_results, list) ==
    LET items == AsList(unlocker_results)
        requested_url(i) ==
            PyOr(DictGet(items[i].d, "requested_url"),
                 PyStr(list[((i - 1) % Len(list)) + 1]))
    IN  [i \in 1..Len(items) |->
            process_result(items[i], "requested_url", requested_url(i),
                           "result_index", i - 1)]

\* _sync_search_queries: processed_results
SerpProcessed(search_results, queries) ==
    LET items == search_results.items
        of_query(query_idx) ==
            LET query_results == items[query_idx]
            IN  IF query_idx > Len(items) THEN <<>>
                ELSE IF query_results.ty = "list"
                THEN [j \in 1..Len(query_results.items) |->
                        process_search_result(query_results.items[j],
                                              queries[query_idx], j - 1)]
                ELSE IF query_results.ty = "dict"
                THEN <<process_search_result(query_results, queries[query_idx], 0)>>
                ELSE <<>>
    IN  IF search_results.ty = "list" /\ Len(queries) > 1
        THEN Concat([q \in 1..Len(queries) |-> of_query(q)])
        ELSE IF search_results.ty = "list"
        THEN [i \in 1..Len(items) |->
                process_search_result(items[i], queries[1], i - 1)]
        ELSE IF search_results.ty = "dict"
        THEN <<process_search_result(search_results, queries[1], 0)>>
        ELSE <<>>

\* _sync_scrape_urls: processed_results; the sampled results carry no
\* "input" value that is not a mapping
ScrapeProcessed(scrape_results, list) ==
    LET items == AsList(scrape_results)
        url_in(result, url) ==
            LET input == DictGetDefault(result.d, "input", PyDict(<<>>))
            IN  PyOr(PyOr(DictGet(input.d, "url"), DictGet(result.d, "url")),
                     PyStr(url))
        of_result(result_idx) ==
            LET result == items[result_idx]
            IN  IF result.ty = "dict"
                THEN <<process_result(result, "url", url_in(result, list[1]),
                                      "result_index", result_idx - 1)>>
                ELSE IF result.ty = "list"
                THEN [j \in 1..Len(result.items) |->
                        process_result(result.items[j], "url",
                            IF result.items[j].ty = "dict"
                            THEN PyOr(DictGet(DictGetDefault(result.items[j].d,
                                          "input", PyDict(<<>>)).d, "url"),
                                      PyStr(list[1]))
                            ELSE PyStr(list[1]),
                            "result_index", j - 1)]
                ELSE <<>>
        of_url(url_idx) ==
            LET result == items[url_idx]
            IN  IF url_idx > Len(items) THEN <<>>
                ELSE IF result.ty = "list"
                THEN [j \in 1..Len(result.items) |->
                        process_result(result.items[j], "url", PyStr(list[url_idx]),
                                       "result_index", j - 1)]
                ELSE <<process_result(result, "url", PyStr(list[url_idx]),
                                      "result_index", 0)>>
    IN  IF Len(list) = 1 /\ Len(items) > 1
        THEN Concat([r \in 1..Len(items) |-> of_result(r)])
        ELSE Concat([u \in 1..Len(list) |-> of_url(u)])

\* The processed results of connector c, or what processing raises: in
\* _sync_unlocker_urls, result.get raises on the first result that is not a
\* mapping.
Flatten(c, config, list, fetched) ==
    LET Processed(rows) == [ok |-> TRUE, rows |-> rows]
        not_dict == SelectSeq(AsList(fetched), LAMBDA r : r.ty # "dict")
        type_name == IF Head(not_dict).ty = "none" THEN "NoneType"
                     ELSE Head(not_dict).ty
    IN  CASE c = "dataset" ->
               Processed(DatasetProcessed(fetched, DictGet(config, "dataset_id")))
          [] c = "scrape" -> Processed(ScrapeProcessed(fetched, list))
          [] c = "serp" -> Processed(SerpProcessed(fetched, list))
          [] c = "unlocker" ->
               IF not_dict # <<>>
               THEN [ok |-> FALSE,
                     exc |-> Raised("AttributeError",
                                "'" \o type_name
                                \o "' object has no attribute 'get'", "")]
               ELSE Processed(UnlockerProcessed(fetched, list))

\* _sync_search_queries, _sync_scrape_urls: the primary keys of a result
\* made present and of the declared type (str_pk a str, result_index an int)
ensure_primary_keys(result, str_pk) ==
    LET as_int(v) ==
            IF v.ty = "int" THEN v
            ELSE IF v.ty = "str"
            THEN LET cleaned == StripChars(Strip(v.s), {"[", "]", "\"", "'"})
                 IN  PyInt(IF DigitsValue(cleaned) >= 0 THEN DigitsValue(cleaned) ELSE 0)
            ELSE PyInt(0)
        as_str(v) == IF v.ty = "str" THEN v ELSE PyStr(Str(v))
    IN  (str_pk :> IF str_pk \in DOMAIN result THEN as_str(result[str_pk])
                   ELSE PyStr(""))
        @@ ("result_index" :>
                IF "result_index" \in DOMAIN result THEN as_int(result["result_index"])
                ELSE PyInt(0))
        @@ result

\* The row passed to op.upsert for one processed result: a one-element list
\* under every field of the batch.
RowOf(c, result, all_fields) ==
    LET checked == CASE c = "serp" -> ensure_primary_keys(result, "query")
                     [] c = "scrape" -> ensure_primary_keys(result, "url")
                     [] OTHER -> result
    IN  [field \in all_fields |-> PyList(<<DictGet(checked, field)>>)]

\* Mutant of SyncedState: the keys already in the state keep their values
\* (setdefault in place of update).
SyncedStateKeepsKnown(c, st, config, list, count) ==
    CASE c = "dataset" ->
           st @@ [last_dataset_id |-> DictGet(config, "dataset_id"),
                  last_record_count |-> PyInt(count),
                  last_filter |-> PyDict(filter_obj_of(config))]
      [] c = "scrape" ->
           st @@ [last_scrape_urls |-> StrList(list), last_scrape_count |-> PyInt(count)]
      [] c = "serp" ->
           st @@ [last_search_queries |-> StrList(list), last_search_count |-> PyInt(count)]
      [] c = "unlocker" ->
           st @@ [last_unlocker_urls |-> StrList(list), last_unlocker_count |-> PyInt(count)]

\* state.update({...}) at the end of _sync_*
SyncedState(c, st, config, list, count) ==
    CASE c = "dataset" ->
           [last_dataset_id |-> DictGet(config, "dataset_id"),
            last_record_count |-> PyInt(count),
            last_filter |-> PyDict(filter_obj_of(config))] @@ st
      [] c = "scrape" ->
           [last_scrape_urls |-> StrList(list), last_scrape_count |-> PyInt(count)] @@ st
      [] c = "serp" ->
           [last_search_queries |-> StrList(list), last_search_count |-> PyInt(count)] @@ st
      [] c = "unlocker" ->
           [last_unlocker_urls |-> StrList(list), last_unlocker_count |-> PyInt(count)] @@ st

----------------------------------------------------------------------------
(* The Sync Orchestrator: update, step by step                             *)

\* The arguments of update, what answers it, and what no step of it writes.
updateArgs == <<connector, configuration, state_passed, env, invocation, first_ops>>

\* update ends by raising exc.
UpdateRaise(exc) ==
    /\ u_pc' = "raised"
    /\ u_result' = [kind |-> "raise", exc |-> exc]

\* Mutant of UpdateValidate: `new_state = state if state else {}`, no copy.
UpdateValidateNoCopy ==
    /\ u_pc = "validate"
    /\ LET err == Validate(connector, configuration)
       IN  IF err # NoError
           THEN UpdateRaise(err) /\ UNCHANGED <<new_state, new_state_is_state>>
           ELSE IF connector = "dataset" /\ env.fault.at = "client"
           THEN /\ UpdateRaise(Raised("ValidationError", "API token is invalid", ""))
                /\ UNCHANGED <<new_state, new_state_is_state>>
           ELSE /\ u_pc' = "prepare"
                /\ new_state' = (IF Truthy(state) THEN state.d ELSE <<>>)
                /\ new_state_is_state' = Truthy(state)
                /\ UNCHANGED u_result
    /\ UNCHANGED <<updateArgs, state, urls, api_results, processed_results, ops>>
    /\ UNCHANGED <<pollVars, createVars, callVars>>

\* validate_configuration(configuration) and, in the dataset connector,
\* bdclient(api_token=api_token), both outside the try; then
\* new_state = dict(state) if state else {}
UpdateValidate ==
    /\ u_pc = "validate"
    /\ LET err == Validate(connector, configuration)
       IN  IF err # NoError
           THEN UpdateRaise(err) /\ UNCHANGED <<new_state, new_state_is_state>>
           ELSE IF connector = "dataset" /\ env.fault.at = "client"
           THEN /\ UpdateRaise(Raised("ValidationError", "API token is invalid", ""))
                /\ UNCHANGED <<new_state, new_state_is_state>>
           ELSE /\ u_pc' = "prepare"
                /\ new_state' = (IF Truthy(state) THEN state.d ELSE <<>>)
                /\ new_state_is_state' = FALSE
                /\ UNCHANGED u_result
    /\ UNCHANGED <<updateArgs, state, urls, api_results, processed_results, ops>>
    /\ UNCHANGED <<pollVars, createVars, callVars>>

\* dataset update: records_limit is parsed and filter_obj built
UpdateReadLimit ==
    /\ u_pc = "prepare"
    /\ connector = "dataset"
    /\ LET limit == records_limit_of(configuration)
       IN  IF ~limit.ok THEN UpdateRaise(WrapSync(limit.exc))
           ELSE u_pc' = "fetch" /\ UNCHANGED u_result
    /\ UNCHANGED <<updateArgs, state, new_state_is_state, new_state, urls, api_results, processed_results, ops>>
    /\ UNCHANGED <<pollVars, createVars, callVars>>

\* scrape, serp, unlocker update: urls = _parse_*(configuration.get(key, ""))
\* and `if urls:`
UpdateNormalize ==
    /\ u_pc = "prepare"
    /\ connector # "dataset"
    /\ urls' = ParseInput(connector,
                   DictGetDefault(configuration, InputKey(connector), PyStr("")))
    /\ u_pc' = IF urls' # <<>> THEN "fetch" ELSE "checkpoint"
    /\ UNCHANGED <<updateArgs, state, new_state_is_state, new_state, api_results, processed_results, ops, u_result>>
    /\ UNCHANGED <<pollVars, createVars, callVars>>

\* Mutant of UpdateFetch: a state that records a sync is taken as a cursor
\* and the fetch is skipped.
UpdateFetchUnlessSynced ==
    /\ u_pc = "fetch"
    /\ IF "last_dataset_id" \in DOMAIN new_state
       THEN u_pc' = "checkpoint" /\ UNCHANGED <<api_results, ops, u_result>>
       ELSE /\ ops' = Append(ops, [op |-> "fetch",
                                  arg |-> FetchArg(connector, configuration, urls),
                                  raised |-> env.fault.at = "fetch"])
            /\ IF env.fault.at = "fetch"
               THEN /\ UpdateRaise(WrapSync(
                        IF connector = "dataset"
                           /\ env.fault.exc.type \notin {"RuntimeError", "ValueError"}
                        THEN Raised("RuntimeError",
                                    "Failed to filter dataset: " \o env.fault.exc.msg,
                                    env.fault.exc.type)
                        ELSE env.fault.exc))
                    /\ UNCHANGED api_results
               ELSE /\ api_results' = env.response
                    /\ u_pc' = "flatten"
                    /\ UNCHANGED u_result
    /\ UNCHANGED <<updateArgs, state, new_state_is_state, new_state, urls, processed_results>>
    /\ UNCHANGED <<pollVars, createVars, callVars>>

\* _sync_*: `if not urls: raise ValueError`, then the fetch; the dataset
\* connector wraps what is neither a RuntimeError nor a ValueError
UpdateFetch ==
    /\ u_pc = "fetch"
    /\ IF connector # "dataset" /\ urls = <<>>
       THEN /\ UpdateRaise(WrapSync(Raised("ValueError",
                    InputKey(connector) \o " cannot be empty", "")))
            /\ UNCHANGED <<api_results, ops>>
       ELSE /\ ops' = Append(ops, [op |-> "fetch",
                                  arg |-> FetchArg(connector, configuration, urls),
                                  raised |-> env.fault.at = "fetch"])
            /\ IF env.fault.at = "fetch"
               THEN /\ UpdateRaise(WrapSync(
                        IF connector = "dataset"
                           /\ env.fault.exc.type \notin {"RuntimeError", "ValueError"}
                        THEN Raised("RuntimeError",
                                    "Failed to filter dataset: " \o env.fault.exc.msg,
                                    env.fault.exc.type)
                        ELSE env.fault.exc))
                    /\ UNCHANGED api_results
               ELSE /\ api_results' = env.response
                    /\ u_pc' = "flatten"
                    /\ UNCHANGED u_result
    /\ UNCHANGED <<updateArgs, state, new_state_is_state, new_state, urls, processed_results>>
    /\ UNCHANGED <<pollVars, createVars, callVars>>

\* _sync_*: the results are processed; process_search_result never raises,
\* the process_* of the other connectors may
UpdateFlatten ==
    /\ u_pc = "flatten"
    /\ LET done == Flatten(connector, configuration, urls, api_results)
       IN  IF env.fault.at = "flatten" /\ connector # "serp"
           THEN /\ UpdateRaise(WrapSync(Raised("TypeError", "unhashable type", "")))
                /\ UNCHANGED processed_results
           ELSE IF ~done.ok
           THEN UpdateRaise(WrapSync(done.exc)) /\ UNCHANGED processed_results
           ELSE /\ processed_results' = done.rows
                /\ u_pc' = IF done.rows # <<>> THEN "upsert" ELSE "checkpoint"
                /\ UNCHANGED u_result
    /\ UNCHANGED <<updateArgs, state, new_state_is_state, new_state, urls, api_results, ops>>
    /\ UNCHANGED <<pollVars, createVars, callVars>>

\* Mutant of UpdateUpsert: a failing op.upsert is logged and the loop goes on.
UpdateUpsertSwallows ==
    /\ u_pc = "upsert"
    /\ LET k == Len(SelectSeq(ops, LAMBDA c : c.op = "upsert")) + 1
           row == RowOf(connector, processed_results[k],
                        collect_all_fields(processed_results))
           fails == env.fault.at = "upsert" /\ env.fault.k = k
       IN  /\ ops' = Append(ops, [op |-> "upsert", arg |-> row, raised |-> fails])
           /\ IF k = Len(processed_results)
              THEN /\ new_state' = SyncedState(connector, new_state, configuration,
                                               urls, Len(processed_results))
                   /\ state' = IF new_state_is_state THEN PyDict(new_state') ELSE state
                   /\ u_pc' = "checkpoint"
                   /\ UNCHANGED u_result
              ELSE UNCHANGED <<u_pc, u_result, new_state, state>>
    /\ UNCHANGED <<updateArgs, new_state_is_state, urls, api_results, processed_results>>
    /\ UNCHANGED <<pollVars, createVars, callVars>>

\* _sync_*: op.upsert of the next row; after the last one, state.update on
\* the mapping that new_state names
UpdateUpsert ==
    /\ u_pc = "upsert"
    /\ LET k == Len(SelectSeq(ops, LAMBDA c : c.op = "upsert")) + 1
           row == RowOf(connector, processed_results[k],
                        collect_all_fields(processed_results))
           fails == env.fault.at = "upsert" /\ env.fault.k = k
       IN  /\ ops' = Append(ops, [op |-> "upsert", arg |-> row, raised |-> fails])
           /\ IF fails
              THEN /\ UpdateRaise(WrapSync(Raised("Exception", "upsert failed", "")))
                   /\ UNCHANGED <<new_state, state>>
              ELSE IF k = Len(processed_results)
              THEN /\ new_state' = SyncedState(connector, new_state, configuration,
                                               urls, Len(processed_results))
                   /\ state' = IF new_state_is_state THEN PyDict(new_state') ELSE state
                   /\ u_pc' = "checkpoint"
                   /\ UNCHANGED u_result
              ELSE UNCHANGED <<u_pc, u_result, new_state, state>>
    /\ UNCHANGED <<updateArgs, new_state_is_state, urls, api_results, processed_results>>
    /\ UNCHANGED <<pollVars, createVars, callVars>>

\* Mutant of UpdateCheckpoint: a failing checkpoint is swallowed.
UpdateCheckpointSwallows ==
    /\ u_pc = "checkpoint"
    /\ ops' = Append(ops, [op |-> "checkpoint", arg |-> PyDict(new_state),
                          raised |-> env.fault.at = "checkpoint"])
    /\ u_pc' = "returned"
    /\ u_result' = [kind |-> "return", value |-> PyDict(new_state)]
    /\ UNCHANGED <<updateArgs, state, new_state_is_state, new_state, urls, api_results, processed_results>>
    /\ UNCHANGED <<pollVars, createVars, callVars>>

\* update: op.checkpoint(state=new_state); return new_state
UpdateCheckpoint ==
    /\ u_pc = "checkpoint"
    /\ ops' = Append(ops, [op |-> "checkpoint", arg |-> PyDict(new_state),
                          raised |-> env.fault.at = "checkpoint"])
    /\ IF env.fault.at = "checkpoint"
       THEN UpdateRaise(WrapSync(Raised("Exception", "checkpoint failed", "")))
       ELSE /\ u_pc' = "returned"
            /\ u_result' = [kind |-> "return", value |-> PyDict(new_state)]
    /\ UNCHANGED <<updateArgs, state, new_state_is_state, new_state, urls, api_results, processed_results>>
    /\ UNCHANGED <<pollVars, createVars, callVars>>

\* The host calls update again: the same configuration, the same answers of
\* the vendor API, another state.
UpdateInvokedAgain ==
    /\ u_pc \in {"returned", "raised"}
    /\ invocation = 1
    /\ invocation' = 2
    /\ first_ops' = ops
    /\ state' \in InputStates \ {state}
    /\ state_passed' = state'
    /\ new_state_is_state' = FALSE
    /\ u_pc' = "validate"
    /\ new_state' = <<>>
    /\ urls' = <<>>
    /\ api_results' = PyNone
    /\ processed_results' = <<>>
    /\ ops' = <<>>
    /\ u_result' = [kind |-> "none"]
    /\ UNCHANGED <<connector, configuration, env>>
    /\ UNCHANGED <<pollVars, createVars, callVars>>

\* update is called.
InitUpdate ==
    /\ connector \in Connectors
    /\ configuration \in Configurations(connector)
    /\ state \in InputStates
    /\ state_passed = state
    /\ new_state_is_state = FALSE
    /\ env \in [response : ResponsesOf(connector), fault : Faults]
    /\ invocation = 1
    /\ first_ops = <<>>
    /\ u_pc = "validate"
    /\ new_state = <<>>
    /\ urls = <<>>
    /\ api_results = PyNone
    /\ processed_results = <<>>
    /\ ops = <<>>
    /\ u_result = [kind |-> "none"]
    /\ PollIdle
    /\ CreateIdle
    /\ CallIdle

NextUpdate ==
    \/ UpdateValidate
    \/ UpdateReadLimit
    \/ UpdateNormalize
    \/ UpdateFetch
    \/ UpdateFlatten
    \/ UpdateUpsert
    \/ UpdateCheckpoint
    \/ UpdateInvokedAgain

SpecUpdate == InitUpdate /\ [][NextUpdate]_vars

----------------------------------------------------------------------------
(* Properties of update                                                    *)

\* The invocation is over.
UpdateDone == u_pc \in {"returned", "raised"}

\* needle in hay, for strings
InStr(needle, hay) ==
    \E i \in 0..(Len(hay) - Len(needle)) : SubSeq(hay, i + 1, i + Len(needle)) = needle

\* The calls of one kind, and the calls that went through.
CallsOf(calls, op) == SelectSeq(calls, LAMBDA c : c.op = op)
Succeeded(calls) == SelectSeq(calls, LAMBDA c : ~c.raised)

\* The rows upserted: the arguments of the op.upsert calls that went through.
UpsertedRows(calls) ==
    LET done == Succeeded(CallsOf(calls, "upsert"))
    IN  [i \in 1..Len(done) |-> done[i].arg]

\* The checkpoint was written: op.checkpoint was called and returned.
CheckpointWritten(calls) == Succeeded(CallsOf(calls, "checkpoint")) # <<>>

\* The rows the invocation has to upsert, once the results are processed.
RowsToUpsert ==
    [i \in 1..Len(processed_results) |->
        RowOf(connector, processed_results[i], collect_all_fields(processed_results))]

\* The place of a call in Validate, Fetch, Flatten, Upsert-all, Checkpoint.
StepRank(c) == CASE c.op = "fetch" -> 1 [] c.op = "upsert" -> 2 [] c.op = "checkpoint" -> 3

\* C11 the calls come in the order of the steps
InStepOrder ==
    /\ \A i, j \in 1..Len(ops) : i < j => StepRank(ops[i]) <= StepRank(ops[j])
    /\ Len(CallsOf(ops, "fetch")) <= 1
    /\ ops # <<>> => Validate(connector, configuration) = NoError /\ u_pc # "validate"
    /\ CallsOf(ops, "upsert") # <<>> =>
          /\ CallsOf(ops, "fetch") # <<>>
          /\ processed_results = Flatten(connector, configuration, urls, api_results).rows
          /\ \A i \in 1..Len(CallsOf(ops, "upsert")) :
                 CallsOf(ops, "upsert")[i].arg = RowsToUpsert[i]

\* C11 op.checkpoint is called at most once, after the last upsert, and in no
\* invocation in which an earlier step raised
CheckpointLast ==
    /\ Len(CallsOf(ops, "checkpoint")) <= 1
    /\ CallsOf(ops, "checkpoint") # <<>> =>
          /\ ops[Len(ops)].op = "checkpoint"
          /\ UpsertedRows(ops) = RowsToUpsert
          /\ \A i \in 1..(Len(ops) - 1) : ~ops[i].raised
    /\ u_pc = "raised" =>
          \/ CallsOf(ops, "checkpoint") = <<>>
          \/ ops[Len(ops)].raised /\ u_result.exc.msg =
                "Failed to sync data from Bright Data: checkpoint failed"

\* C11: in every invocation of update the steps occur in the order Validate,
\* Fetch, Flatten, Upsert-all, Checkpoint; op.checkpoint is called at most
\* once, only after the last upsert, and never in an invocation in which
\* validation, fetch, flatten or an upsert raised.
C11_StepsInOrder == InStepOrder /\ CheckpointLast

\* An upsert raised, and the invocation ended without a checkpoint call;
\* and elsewhere the checkpoint follows two upserts.
C11_Witness ==
    /\ u_pc = "raised"
    /\ connector = "serp"
    /\ Len(CallsOf(ops, "upsert")) = 2
    /\ ops[Len(ops)].op = "upsert" /\ ops[Len(ops)].raised
    /\ CallsOf(ops, "checkpoint") = <<>>

\* The exception the invocation raised.
RaisedExc == u_result.exc

\* seq is the first Len(seq) items of of_seq.
IsPrefix(seq, of_seq) ==
    Len(seq) <= Len(of_seq) /\ seq = SubSeq(of_seq, 1, Len(seq))

\* C12 as claimed: for every invocation of update, either all processed rows
\* are upserted and the state is checkpointed, or the invocation raises with
\* no checkpoint written and none of its processed rows upserted.
C12_NoRowUpsertedOnFailure ==
    UpdateDone =>
        \/ /\ u_pc = "returned"
           /\ UpsertedRows(ops) = RowsToUpsert
           /\ CheckpointWritten(ops)
        \/ /\ u_pc = "raised"
           /\ ~CheckpointWritten(ops)
           /\ UpsertedRows(ops) = <<>>

\* C12 amended: for every invocation of update, either all processed rows are
\* upserted and the state is checkpointed, or the invocation raises with no
\* checkpoint written and a prefix of its processed rows upserted: the first
\* k - 1 rows when the upsert of the k-th row fails, all of them when
\* op.checkpoint itself fails, none when an earlier step fails.
C12_NoCheckpointOnFailure ==
    UpdateDone =>
        \/ /\ u_pc = "returned"
           /\ UpsertedRows(ops) = RowsToUpsert
           /\ CheckpointWritten(ops)
        \/ /\ u_pc = "raised"
           /\ ~CheckpointWritten(ops)
           /\ IsPrefix(UpsertedRows(ops), RowsToUpsert)
           /\ \/ /\ ops # <<>>
                 /\ ops[Len(ops)].op = "upsert"
                 /\ ops[Len(ops)].raised
                 /\ Len(UpsertedRows(ops)) = Len(CallsOf(ops, "upsert")) - 1
              \/ /\ ops # <<>>
                 /\ ops[Len(ops)].op = "checkpoint"
                 /\ ops[Len(ops)].raised
                 /\ UpsertedRows(ops) = RowsToUpsert
              \/ /\ UpsertedRows(ops) = <<>>
                 /\ CallsOf(ops, "upsert") = <<>>

\* The upsert of the second row failed: the first row is upserted, the
\* invocation raised and no checkpoint is written.
C12_Witness ==
    /\ u_pc = "raised"
    /\ connector = "unlocker"
    /\ env.fault = [at |-> "upsert", k |-> 2]
    /\ Len(RowsToUpsert) = 2
    /\ UpsertedRows(ops) = <<RowsToUpsert[1]>>
    /\ ~CheckpointWritten(ops)

\* The step at which a failed invocation failed is outside the try of update:
\* validate_configuration, or the construction of the vendor client.
FailedBeforeTry ==
    \/ Validate(connector, configuration) # NoError
    \/ connector = "dataset" /\ env.fault.at = "client"

C14_ApiTokenCheckedFirst ==
    (~Truthy(DictGet(configuration, "api_token")) /\ u_pc # "validate") =>
        /\ u_pc = "raised"
        /\ RaisedExc.type = "ValueError"
        /\ InStr("api_token", RaisedExc.msg)
        /\ ~InStr(InputKey(connector), RaisedExc.msg)
        /\ ops = <<>>

\* The unlocker connector was given neither api_token nor unlocker_url, and
\* raised.
C14_Witness ==
    /\ connector = "unlocker"
    /\ DOMAIN configuration = {"dataset_id"}
    /\ u_pc = "raised"
    /\ RaisedExc.msg = "Missing required configuration value: api_token"

\* C15 as claimed: when the configured URL or query value normalizes to an
\* empty list, the invocation of update raises a validation error
\* "... cannot be empty" and makes no fetch, upsert or checkpoint call.
C15_EmptyInputIsFatal ==
    (/\ connector # "dataset"
     /\ Truthy(DictGet(configuration, "api_token"))
     /\ ParseInput(connector,
                   DictGetDefault(configuration, InputKey(connector), PyStr(""))) = <<>>
     /\ UpdateDone) =>
        /\ u_pc = "raised"
        /\ InStr("cannot be empty", RaisedExc.msg)
        /\ ops = <<>>

\* The calls of an invocation without the state they carry.
Shape(calls) ==
    [i \in 1..Len(calls) |->
        IF calls[i].op = "checkpoint"
        THEN [op |-> "checkpoint", raised |-> calls[i].raised]
        ELSE calls[i]]

\* C16: two invocations of update with the same configuration and the same
\* answers of the vendor API but different input states make the same fetch
\* calls and upsert the same rows; the state shows only in the argument of the
\* one checkpoint.
C16_StateIsWriteOnly ==
    (invocation = 2 /\ UpdateDone) =>
        /\ CallsOf(ops, "fetch") = CallsOf(first_ops, "fetch")
        /\ UpsertedRows(ops) = UpsertedRows(first_ops)
        /\ Shape(ops) = Shape(first_ops)
        /\ Len(CallsOf(ops, "checkpoint")) <= 1

\* The second invocation, given the state of an earlier sync, fetched and
\* upserted two rows as the first did.
C16_Witness ==
    /\ invocation = 2
    /\ u_pc = "returned"
    /\ Truthy(state)
    /\ "last_dataset_id" \in DOMAIN state.d
    /\ Len(UpsertedRows(ops)) = 2
    /\ UpsertedRows(first_ops) = UpsertedRows(ops)

----------------------------------------------------------------------------
(* The Input Normalizer and process_search_result called on their own: the *)
(* argument is drawn at the call, the function is applied and returns.     *)

\* The longest list that is encoded, the longest text over the alphabet, and
\* the largest index of a search result.
MaxListLen == 2
MaxInputLen == 3
MaxIndex == 2

\* json.dumps(strs): the JSON array of a list of str; json.dumps of one str
\* is the text between the brackets.
JsonArrayText(strs) ==
    LET RECURSIVE Escaped(_)
        Escaped(t) ==
            IF t = "" THEN ""
            ELSE (IF Head(t) \in {"\"", "\\"} THEN "\\" ELSE "") \o Head(t)
                 \o Escaped(Tail(t))
        RECURSIVE Joined(_)
        Joined(items) ==
            IF Len(items) = 1 THEN "\"" \o Escaped(items[1]) \o "\""
            ELSE "\"" \o Escaped(Head(items)) \o "\", " \o Joined(Tail(items))
    IN  "[" \o Joined(strs) \o "]"

\* The values the Input Normalizer is called with, each with where it comes
\* from: the encodings of the lists of up to MaxListLen non-empty trimmed
\* items without comma and newline; every text of up to MaxInputLen
\* characters; longer texts, values that are no text, lists with items that
\* are no text.
NormalizerInputs ==
    LET Items == {"a", "b", "a b", "1", "[]", "[", "]", "\"a\"", "\\"}
        Lists == UNION { [1..n -> Items] : n \in 1..MaxListLen }
        Alphabet == {"a", " ", ",", "\n", "[", "]", "\""}
        RECURSIVE Texts(_)
        Texts(n) == IF n = 0 THEN {""}
                    ELSE Texts(n - 1)
                         \cup { t \o c : t \in Texts(n - 1), c \in Alphabet }
        RECURSIVE Joined(_, _)
        Joined(strs, sep) ==
            IF Len(strs) = 1 THEN strs[1]
            ELSE Head(strs) \o sep \o Joined(Tail(strs), sep)
        scalar(L) == LET array == JsonArrayText(L)
                     IN  SubSeq(array, 2, Len(array) - 1)
        Encoded(L) ==
            { [input |-> StrList(L), origin |-> [encoding |-> "list", list |-> L]],
              [input |-> PyStr(JsonArrayText(L)),
               origin |-> [encoding |-> "json_array", list |-> L]],
              [input |-> PyStr(Joined(L, ",")),
               origin |-> [encoding |-> "comma", list |-> L]],
              [input |-> PyStr(Joined(L, "\n")),
               origin |-> [encoding |-> "newline", list |-> L]] }
            \cup (IF Len(L) # 1 THEN {}
                  ELSE { [input |-> PyStr(L[1]),
                          origin |-> [encoding |-> "bare", list |-> L]],
                         [input |-> PyStr(scalar(L)),
                          origin |-> [encoding |-> "json_scalar", list |-> L]] })
        Raw == { PyStr(t) : t \in Texts(MaxInputLen) }
               \cup { PyStr(" a , a "), PyStr(" a \n\n b "), PyStr("a,b\na"),
                      PyStr("{\"a\": 1, \"a a\": 11}"), PyStr("{\"a\":1}"),
                      PyStr("\"a, b\""), PyStr("[1, \"a\", \" \", \" b \"]"),
                      PyStr("[\"a\",\n \"b\"]"), PyStr("\" \""), PyStr("11"),
                      PyNone, PyInt(0), PyInt(1), PyList(<<>>), PyDict(<<>>),
                      PyDict([url |-> PyStr("a")]),
                      PyList(<<PyStr(" a "), PyInt(1), PyStr(" "), PyNone,
                               PyStr("a"), PyStr("")>>) }
    IN  UNION { Encoded(L) : L \in Lists }
        \cup { [input |-> v, origin |-> [encoding |-> "raw"]] : v \in Raw }

\* The raw results, queries and indices process_search_result is called with.
SearchResultInputs ==
    LET Results ==
            { PyDict([title |-> PyStr("t"), result_index |-> PyStr("[0]")]),
              PyDict([query |-> PyStr("other"), position |-> PyInt(9)]),
              PyDict([input |-> PyDict([result_index |-> PyInt(5),
                                        query |-> PyStr("other"),
                                        url |-> PyStr("u")])]),
              PyDict([result_index_raw |-> PyInt(1), query_id |-> PyInt(2),
                      queryx |-> PyInt(3), xquery |-> PyInt(4)]),
              PyDict([result |-> PyDict([index |-> PyInt(7)]),
                      data |-> PyDict([input |-> PyDict([query |-> PyNone])])]),
              Row1, PyDict(<<>>), PyStr("<html>"), PyNone,
              PyList(<<PyStr("x"), PyInt(1)>>) }
    IN  [result : Results, query : {"pizza", "a b"}, result_index : 0..MaxIndex]

\* The mappings flatten_dict is called with: flat ones, nested ones, ones
\* holding lists, None and empty mappings.
FlattenInputs ==
    { <<>>,
      [name |-> PyStr("acme"), rank |-> PyInt(1), note |-> PyNone],
      [tags |-> PyList(<<PyStr("x"), PyDict([k |-> PyInt(1)])>>),
       none |-> PyList(<<>>)],
      [a |-> PyDict([b |-> PyInt(1), c |-> PyDict([d |-> PyStr("deep")])]),
       e |-> PyInt(2)],
      [input |-> PyDict([url |-> PyStr("u"),
                         items |-> PyList(<<PyDict([x |-> PyInt(1)])>>)]),
       empty |-> PyDict(<<>>)],
      [a_b |-> PyInt(1), a |-> PyDict([c |-> PyInt(2)])],
      [a |-> PyDict([b |-> PyDict(<<>>)])] }

\* A function is called with its argument.
InitCall ==
    /\ \/ \E i \in NormalizerInputs :
            /\ call_args = [input |-> i.input]
            /\ call_origin = i.origin
       \/ /\ call_args \in SearchResultInputs
          /\ call_origin = [encoding |-> "none"]
       \/ /\ call_args \in [data : FlattenInputs]
          /\ call_origin = [encoding |-> "none"]
    /\ call_pc = "called"
    /\ call_fn = ""
    /\ call_ret = PyNone
    /\ PollIdle
    /\ CreateIdle
    /\ UpdateIdle

\* _parse_scrape_urls(scrape_url_input) runs and returns.
CallParseScrapeUrls ==
    /\ call_pc = "called"
    /\ "input" \in DOMAIN call_args
    /\ call_fn' = "_parse_scrape_urls"
    /\ call_ret' = parse_scrape_urls(call_args.input)
    /\ call_pc' = "returned"
    /\ UNCHANGED <<call_args, call_origin, pollVars, createVars, updateVars>>

\* _parse_search_queries(search_query_input) runs and returns.
CallParseSearchQueries ==
    /\ call_pc = "called"
    /\ "input" \in DOMAIN call_args
    /\ call_fn' = "_parse_search_queries"
    /\ call_ret' = parse_search_queries(call_args.input)
    /\ call_pc' = "returned"
    /\ UNCHANGED <<call_args, call_origin, pollVars, createVars, updateVars>>

\* _parse_unlocker_urls(unlocker_url_input) runs and returns.
CallParseUnlockerUrls ==
    /\ call_pc = "called"
    /\ "input" \in DOMAIN call_args
    /\ call_fn' = "_parse_unlocker_urls"
    /\ call_ret' = parse_unlocker_urls(call_args.input)
    /\ call_pc' = "returned"
    /\ UNCHANGED <<call_args, call_origin, pollVars, createVars, updateVars>>

\* process_search_result(result, query, result_index) runs and returns.
CallProcessSearchResult ==
    /\ call_pc = "called"
    /\ "result" \in DOMAIN call_args
    /\ call_fn' = "process_search_result"
    /\ call_ret' = process_search_result(call_args.result, call_args.query,
                                         call_args.result_index)
    /\ call_pc' = "returned"
    /\ UNCHANGED <<call_args, call_origin, pollVars, createVars, updateVars>>

\* flatten_dict(data) runs and returns.
CallFlattenDict ==
    /\ call_pc = "called"
    /\ "data" \in DOMAIN call_args
    /\ call_fn' = "flatten_dict"
    /\ call_ret' = flatten_dict(call_args.data, "")
    /\ call_pc' = "returned"
    /\ UNCHANGED <<call_args, call_origin, pollVars, createVars, updateVars>>

NextCall ==
    \/ CallFlattenDict
    \/ CallParseScrapeUrls
    \/ CallParseSearchQueries
    \/ CallParseUnlockerUrls
    \/ CallProcessSearchResult

SpecCall == InitCall /\ [][NextCall]_vars

----------------------------------------------------------------------------
(* Properties of the Input Normalizer and of process_search_result         *)

\* A call of the Input Normalizer has returned.
NormalizerReturned == call_pc = "returned" /\ "input" \in DOMAIN call_args

\* json.loads gives a list or a non-blank str: the JSON strategy decides.
ParsesAsJson(text) ==
    LET parsed == json_loads(text)
    IN  /\ parsed.ok
        /\ \/ parsed.val.ty = "list"
           \/ parsed.val.ty = "str" /\ \E i \in 1..Len(parsed.val.s) :
                  SubSeq(parsed.val.s, i, i) \notin {" ", "\n"}

\* C17 as claimed: for every ordered list L of non-empty trimmed strings
\* without comma and newline, the Input Normalizer returns L for each
\* encoding of L.
C17_EveryEncodingYieldsList ==
    (NormalizerReturned /\ call_origin.encoding # "raw") =>
        call_ret = call_origin.list

\* C17 amended: for every such list L the Input Normalizer returns L for the
\* Python list itself, for its JSON array string and, when L has one item, for
\* its JSON string scalar; for the comma-joined string, the newline-joined
\* string and the bare item it returns L unless that string is itself a JSON
\* array or a non-blank JSON string, which is then parsed as JSON.
C17_EncodingYieldsListUnlessJson ==
    (NormalizerReturned /\ call_origin.encoding # "raw") =>
        IF call_origin.encoding \in {"list", "json_array", "json_scalar"}
        THEN call_ret = call_origin.list
        ELSE ParsesAsJson(call_args.input.s) \/ call_ret = call_origin.list

\* The newline-joined string of two items, one of them a bracket, came back
\* as the two items.
C17_Witness ==
    /\ NormalizerReturned
    /\ call_fn = "_parse_search_queries"
    /\ call_origin = [encoding |-> "newline", list |-> <<"[", "a b">>]
    /\ call_args.input = PyStr("[\na b")
    /\ call_ret = <<"[", "a b">>

\* x is a non-empty string without leading or trailing whitespace.
Trimmed(x) ==
    /\ x # ""
    /\ Head(x) \notin {" ", "\n"}
    /\ SubSeq(x, Len(x), Len(x)) \notin {" ", "\n"}

\* The items occur in the text one after the other.
RECURSIVE OccurInOrder(_, _)
OccurInOrder(items, text) ==
    IF items = <<>> THEN TRUE
    ELSE LET n == Len(Head(items))
             at == { p \in 1..(Len(text) - n + 1) :
                       SubSeq(text, p, p + n - 1) = Head(items) }
             first == CHOOSE p \in at : \A q \in at : p <= q
         IN  /\ at # {}
             /\ OccurInOrder(Tail(items), SubSeq(text, first + n, Len(text)))

\* The items of a Python list that are str holding more than whitespace.
TextItems(items) ==
    SelectSeq(items, LAMBDA x : x.ty = "str" /\ \E i \in 1..Len(x.s) :
                                    SubSeq(x.s, i, i) \notin {" ", "\n"})

\* C18: for every input value the Input Normalizer returns a list of
\* non-empty strings without leading or trailing whitespace, in the order the
\* items appear in the input, none moved and none dropped as a duplicate; an
\* empty or falsy input yields the empty list.
C18_TrimmedItemsInOrder ==
    NormalizerReturned =>
        /\ \A i \in 1..Len(call_ret) : Trimmed(call_ret[i])
        /\ ~Truthy(call_args.input) => call_ret = <<>>
        /\ call_args.input.ty = "list" =>
              /\ Len(call_ret) = Len(TextItems(call_args.input.items))
              /\ \A i \in 1..Len(call_ret) :
                     OccurInOrder(<<call_ret[i]>>, TextItems(call_args.input.items)[i].s)
        /\ (call_args.input.ty = "str" /\ ~HasChar(call_args.input.s, "\\")) =>
              OccurInOrder(call_ret, call_args.input.s)

\* A comma-separated text with blanks around its two equal items came back
\* as the two items, trimmed.
C18_Witness ==
    /\ NormalizerReturned
    /\ call_fn = "_parse_scrape_urls"
    /\ call_args.input = PyStr(" a , a ")
    /\ call_ret = <<"a", "a">>

\* The trimmed non-blank pieces of a text between separators.
Parts(text, sep) ==
    LET kept == SelectSeq(Split(text, sep), LAMBDA x : \E i \in 1..Len(x) :
                              SubSeq(x, i, i) \notin {" ", "\n"})
    IN  [i \in 1..Len(kept) |-> Strip(kept[i])]

\* What the JSON strategy returns for a text that ParsesAsJson.
JsonItems(text) ==
    LET val == json_loads(text).val
    IN  IF val.ty = "list"
        THEN [i \in 1..Len(TextItems(val.items)) |-> Strip(TextItems(val.items)[i].s)]
        ELSE <<Strip(val.s)>>

\* C19 as claimed: every string that is valid JSON and contains commas is
\* parsed as JSON and not split on commas, and a string with commas that is
\* not valid JSON is split on commas.
C19_ValidJsonNeverSplit ==
    (/\ NormalizerReturned
     /\ call_args.input.ty = "str"
     /\ HasChar(call_args.input.s, ",")) =>
        IF json_loads(call_args.input.s).ok
        THEN call_ret # Parts(call_args.input.s, ",")
        ELSE call_ret = Parts(call_args.input.s, ",")

\* C19 amended: the strategies apply in the order list passthrough, JSON
\* parse, comma split, newline split, single item: every string with commas
\* that is a valid JSON array or a non-blank JSON string is parsed as JSON and
\* not split on commas, and every other string with commas (not valid JSON,
\* or JSON of another kind such as an object) is split on commas, also when
\* it holds newlines.
C19_JsonArrayOrStringNeverSplit ==
    (/\ NormalizerReturned
     /\ call_args.input.ty = "str"
     /\ HasChar(call_args.input.s, ",")) =>
        IF ParsesAsJson(call_args.input.s)
        THEN /\ call_ret = JsonItems(call_args.input.s)
             /\ call_ret # Parts(call_args.input.s, ",")
        ELSE call_ret = Parts(call_args.input.s, ",")

\* A JSON array written with a comma and a newline came back as its items,
\* and not as its pieces between commas.
C19_Witness ==
    /\ NormalizerReturned
    /\ call_fn = "_parse_unlocker_urls"
    /\ call_args.input = PyStr("[\"a\",\n \"b\"]")
    /\ call_ret = <<"a", "b">>

\* The name k is a primary-key name, ends with "_<pk>" or starts with "<pk>_".
ShadowsPrimaryKey(k) ==
    \E pk \in {"query", "result_index"} :
        \/ k = pk
        \/ Len(k) > Len(pk) /\ SubSeq(k, Len(k) - Len(pk), Len(k)) = "_" \o pk
        \/ Len(k) > Len(pk) /\ SubSeq(k, 1, Len(pk) + 1) = pk \o "_"

\* C20: in every row produced by process_search_result, query is the given
\* query and result_index the given index as an integer, whatever the raw
\* result holds: no other key of the row equals a primary-key name, ends with
\* "_<pk>" or starts with "<pk>_", and the other flattened keys are kept.
C20_PrimaryKeysAsGiven ==
    (call_pc = "returned" /\ call_fn = "process_search_result") =>
        /\ call_ret["query"] = PyStr(call_args.query)
        /\ call_ret["result_index"] = PyInt(call_args.result_index)
        /\ call_ret["position"] = PyInt(call_args.result_index + 1)
        /\ \A k \in DOMAIN call_ret \ {"query", "result_index"} : ~ShadowsPrimaryKey(k)
        /\ call_args.result.ty = "dict" =>
              \A k \in DOMAIN flatten_dict(call_args.result.d, "") :
                  (~ShadowsPrimaryKey(k) /\ k # "position") =>
                      /\ k \in DOMAIN call_ret
                      /\ call_ret[k] = flatten_dict(call_args.result.d, "")[k]

\* The raw result {title: "t", result_index: "[0]"} processed at index 2 has
\* result_index 2.
C20_Witness ==
    /\ call_pc = "returned"
    /\ call_fn = "process_search_result"
    /\ call_args.result = PyDict([title |-> PyStr("t"), result_index |-> PyStr("[0]")])
    /\ call_args.result_index = 2
    /\ call_ret["result_index"] = PyInt(2)
    /\ call_ret["title"] = PyStr("t")

\* C21: flatten_dict is idempotent: flattening what flatten_dict returned
\* returns it again; a mapping without a mapping-valued entry is returned
\* unchanged; a list value is kept whole under its key and no value of the
\* result is a mapping.
C21_FlattenIdempotent ==
    (call_pc = "returned" /\ call_fn = "flatten_dict") =>
        /\ flatten_dict(call_ret, "") = call_ret
        /\ (\A k \in DOMAIN call_args.data : call_args.data[k].ty # "dict") =>
              call_ret = call_args.data
        /\ \A k \in DOMAIN call_args.data :
              call_args.data[k].ty = "list" =>
                  k \in DOMAIN call_ret /\ call_ret[k] = call_args.data[k]
        /\ \A k \in DOMAIN call_ret : call_ret[k].ty # "dict"

\* A mapping nested two levels deep, with a list holding a mapping, was
\* flattened: the nested keys are joined and the list is kept.
C21_Witness ==
    /\ call_pc = "returned"
    /\ call_fn = "flatten_dict"
    /\ "input" \in DOMAIN call_args.data
    /\ DOMAIN call_ret = {"input_url", "input_items"}
    /\ call_ret["input_items"] = PyList(<<PyDict([x |-> PyInt(1)])>>)

----------------------------------------------------------------------------
(* The rows of one batch                                                   *)

\* schema(configuration): the primary key of the table of connector c, less
\* _fivetran_synced, which the platform fills in
PrimaryKeyOf(c) ==
    CASE c = "dataset" -> {"dataset_id", "record_index"}
      [] c = "scrape" -> {"url", "result_index"}
      [] c = "serp" -> {"query", "result_index"}
      [] c = "unlocker" -> {"requested_url", "result_index"}

\* The keys of the processed records of the batch.
BatchKeys == UNION { DOMAIN processed_results[j] : j \in DOMAIN processed_results }

----------------------------------------------------------------------------
(* The ready response and the end of polling                               *)

\* The last download call returned a dict whose status is `ready` in any case.
LastStatusReady ==
    /\ p_last.kind = "value"
    /\ p_last.value.ty = "dict"
    /\ "status" \in DOMAIN p_last.value.d
    /\ p_last.value.d["status"] \in {PyStr("ready"), PyStr("READY")}

\* The payload of a ready response as C23 states it: the value under data,
\* records or results; without one, the mapping of the non-metadata keys;
\* and when that is empty, the whole response.
ClaimedPayload(d) ==
    LET picked == PyOr(PyOr(DictGet(d, "data"), DictGet(d, "records")),
                       DictGet(d, "results"))
        others == Restrict(d, (DOMAIN d) \ metadata_keys)
    IN  IF Truthy(picked) THEN picked
        ELSE IF DOMAIN others # {} THEN PyDict(others)
        ELSE PyDict(d)

\* C23 as claimed: when a poll attempt returns a dict with status ready,
\* polling ends at that attempt and returns the payload (the value under
\* data, records or results; else the non-metadata keys; else the whole
\* response), a scalar or dict payload as a single-element list.
C23_ReadyEndsPolling ==
    LastStatusReady =>
        /\ p_pc = "done"
        /\ p_result = [kind |-> "return",
                       value |-> IF ClaimedPayload(p_last.value.d).ty = "list"
                                 THEN ClaimedPayload(p_last.value.d)
                                 ELSE PyList(<<ClaimedPayload(p_last.value.d)>>)]

\* The error_type of the one record of a returned failure list.
ErrorTypeReturned == p_result.value.items[1].d["error_type"].s

\* C24: when polling exhausts max_attempts without a ready, failed or
\* not-found outcome, the error_type of the returned record is decided by
\* the last attempt alone: polling_failed if and only if the last attempt
\* raised an exception, timeout if and only if it returned a non-terminal
\* response, whatever the earlier attempts did.
C24_LastAttemptDecides ==
    (p_pc = "done" /\ p_calls >= 1 /\ p_attempt >= max_attempts) =>
        /\ IsFailureList(p_result.value, {"polling_failed", "timeout"})
        /\ ErrorTypeReturned = "polling_failed" <=> p_exc # NoExc
        /\ ErrorTypeReturned = "timeout" <=>
              (p_exc = NoExc /\ p_last.kind = "value"
               /\ PollTry(snapshot_id, p_last.value).out = "next")

\* An earlier attempt raised, the last one returned a non-terminal response,
\* and the record returned is the timeout record.
C24_Witness ==
    /\ p_pc = "done"
    /\ max_attempts >= 2
    /\ p_calls = max_attempts
    /\ p_caught
    /\ p_exc = NoExc
    /\ p_last.kind = "value"
    /\ p_last.value = PyDict([status |-> PyStr("running")])
    /\ IsFailureList(p_result.value, {"timeout"})

----------------------------------------------------------------------------
(* The retries of one call of _create_filtered_snapshot                    *)

\* C25: within one call of snapshot creation the retry counter and the
\* backoff are shared by all retryable error kinds (429, 408/5xx, network
\* exception): the k-th sleep of the call lasts backoff_factor^k whatever
\* mix of error kinds caused the retries, and the number of retries over all
\* kinds never exceeds `retries`.
C25_BackoffSharedByKinds ==
    /\ Len(c_waits) = c_attempt
    /\ Len(c_waits) <= retries
    /\ \A k \in 1..Len(c_waits) : RatEq(c_waits[k], RatPow(backoff_factor, k))

\* Three retries, one after a 429, one after a 408/5xx and one after a
\* network exception, slept 3/2, 9/4 and 27/8.
C25_Witness ==
    /\ backoff_factor = <<3, 2>>
    /\ retries = 3
    /\ c_kinds = {"429", "transient", "network"}
    /\ c_waits = <<<<3, 2>>, <<9, 4>>, <<27, 8>>>>

----------------------------------------------------------------------------
(* The state update returns                                                *)

\* The keys under which a connector stores the count and the identifiers of
\* a sync, as C26 names them.
CountKey(c) ==
    CASE c = "dataset" -> "last_record_count"
      [] c = "scrape" -> "last_scrape_count"
      [] c = "serp" -> "last_search_count"
      [] c = "unlocker" -> "last_unlocker_count"
IdentifiersKey(c) ==
    CASE c = "scrape" -> "last_scrape_urls"
      [] c = "serp" -> "last_search_queries"
      [] c = "unlocker" -> "last_unlocker_urls"

\* The returned state tells of this invocation: its count is the number of
\* rows upserted, its identifiers are the ones requested.
ReturnedStateOfThisInvocation ==
    LET returned == u_result.value.d
        requested == ParseInput(connector,
                         DictGetDefault(configuration, InputKey(connector), PyStr("")))
    IN  /\ CountKey(connector) \in DOMAIN returned
        /\ returned[CountKey(connector)] = PyInt(Len(UpsertedRows(ops)))
        /\ connector # "dataset" =>
              /\ IdentifiersKey(connector) \in DOMAIN returned
              /\ returned[IdentifiersKey(connector)] = StrList(requested)

\* The mapping update starts from: a copy of the state passed, or {}.
StateAtEntry == IF Truthy(state_passed) THEN state_passed ELSE PyDict(<<>>)

\* C26 as claimed: after every invocation of update that returns normally,
\* the count stored in the returned state equals the number of rows upserted
\* in that invocation and the stored identifiers are the ones requested in
\* that invocation, including when the invocation upserted zero rows.
C26_StateMatchesInvocation == u_pc = "returned" => ReturnedStateOfThisInvocation

\* C26 amended: after every invocation of update that returns normally and
\* upserted at least one row, the stored count equals the number of rows
\* upserted and the stored identifiers are the ones requested; an invocation
\* that upserted zero rows returns the state it was given, unchanged.
C26_StateMatchesUnlessNoRows ==
    u_pc = "returned" =>
        IF UpsertedRows(ops) # <<>>
        THEN ReturnedStateOfThisInvocation
        ELSE u_result.value = StateAtEntry

\* Two rows were upserted in an invocation given the state of an earlier
\* sync of five: the state returned counts two and names this invocation's
\* queries.
C26_Witness ==
    /\ u_pc = "returned"
    /\ connector = "serp"
    /\ Truthy(state_passed)
    /\ DictGet(state_passed.d, "last_search_count") = PyInt(5)
    /\ Len(UpsertedRows(ops)) = 2
    /\ u_result.value.d["last_search_count"] = PyInt(2)
    /\ u_result.value.d["last_search_queries"] # state_passed.d["last_search_queries"]

----------------------------------------------------------------------------
(* The primary keys of the rows of one invocation                          *)

\* C27 as claimed: in the scrape connector, when one URL is configured and
\* the API returns N > 1 results, every result yields a row and each row
\* gets a unique result_index in 0..N-1, for every shape of result element
\* (dict, nested list, or other value).
C27_EveryResultUniquelyIndexed ==
    (/\ connector = "scrape"
     /\ u_pc = "returned"
     /\ Len(urls) = 1
     /\ api_results.ty = "list"
     /\ Len(api_results.items) > 1) =>
        LET N == Len(api_results.items)
            rows == UpsertedRows(ops)
        IN  /\ Len(rows) = N
            /\ \A i \in 1..Len(rows) :
                   rows[i]["result_index"] \in { PyList(<<PyInt(k)>>) : k \in 0..(N - 1) }
            /\ \A i, j \in 1..Len(rows) :
                   i # j => rows[i]["result_index"] # rows[j]["result_index"]

\* C28 as claimed: within one invocation of the SERP connector no two
\* upserted rows share the same primary key (query, result_index), for
\* every configured query list (repeated queries included) and every shape
\* of search results.
C28_SerpPrimaryKeysDistinct ==
    connector = "serp" =>
        LET rows == UpsertedRows(ops)
        IN  \A i, j \in 1..Len(rows) :
                i # j => \E pk \in PrimaryKeyOf("serp") : rows[i][pk] # rows[j][pk]

----------------------------------------------------------------------------
(* The dataset connector: what polling returns, and the sync that follows  *)

\* Snapshot creation and polling are over: filter_dataset has returned.
DatasetFetched == connector = "dataset" /\ Succeeded(CallsOf(ops, "fetch")) # <<>>

\* The state mapping st is that of a sync of at least one row, all upserted.
SyncOfUpsertedRows(st) ==
    /\ Len(UpsertedRows(ops)) >= 1
    /\ {"last_dataset_id", "last_record_count", "last_filter"} \subseteq DOMAIN st
    /\ st["last_record_count"] = PyInt(Len(UpsertedRows(ops)))
    /\ st["last_dataset_id"] = DictGet(configuration, "dataset_id")

----------------------------------------------------------------------------
(* The state mapping of the caller                                         *)

\* The keys a connector writes into the state.
LastKeys(c) ==
    IF c = "dataset" THEN {"last_dataset_id", "last_record_count", "last_filter"}
    ELSE {CountKey(c), IdentifiersKey(c)}

\* The mapping st holds every key of the state passed, with the value
\* passed unless the key is one the connector writes, and no other key.
KeepsStatePassed(st) ==
    /\ DOMAIN StateAtEntry.d \subseteq DOMAIN st
    /\ DOMAIN st \subseteq DOMAIN StateAtEntry.d \cup LastKeys(connector)
    /\ \A k \in DOMAIN StateAtEntry.d \ LastKeys(connector) : st[k] = StateAtEntry.d[k]

\* C30: update never mutates the state mapping passed by the caller, whether
\* the invocation succeeds or raises: it works on a copy, and the state it
\* checkpoints and returns contains every key of the input state, with only
\* the connector's last_* keys added or overwritten.
C30_CallerStateNotMutated ==
    /\ state = state_passed
    /\ ~new_state_is_state
    /\ \A i \in 1..Len(CallsOf(ops, "checkpoint")) :
           KeepsStatePassed(CallsOf(ops, "checkpoint")[i].arg.d)
    /\ u_pc = "returned" => KeepsStatePassed(u_result.value.d)

\* The unlocker connector was given the state of an earlier sync, upserted
\* two rows and returned: the mapping of the caller still counts five, the
\* one returned counts two and keeps the caller's cursor.
C30_Witness ==
    /\ connector = "unlocker"
    /\ u_pc = "returned"
    /\ Truthy(state_passed)
    /\ Len(UpsertedRows(ops)) = 2
    /\ state.d["last_unlocker_count"] = PyInt(5)
    /\ u_result.value.d["last_unlocker_count"] = PyInt(2)
    /\ u_result.value.d["cursor"] = state.d["cursor"]

====
